---- MODULE Spec2Model ----
(***************************************************************************)
(* Sumo news digest: listing scraper, summarizer, digest composer, mail    *)
(* sender and the application's run() pipeline.                            *)
(*                                                                         *)
(* Text is modelled as JavaScript strings are: sequences of UTF-16 code    *)
(* units (integers), so that length, substring, trim, toLowerCase,         *)
(* includes, startsWith and split compute what the code computes.          *)
(***************************************************************************)
EXTENDS Integers, Sequences, FiniteSets, TLC

(***************************************************************************)
(* String primitives of String.prototype                                   *)
(***************************************************************************)
Min(a, b) == IF a < b THEN a ELSE b

Max(a, b) == IF a > b THEN a ELSE b

\* White space removed by trim(): tab, line feed, carriage return, space.
IsSpace(c) == c \in {9, 10, 13, 32}

IsUpper(c) == c \in 65..90

IsDigit(c) == c \in 48..57

\* the lower-case form of one code unit among the ASCII letters
LowerUnit(c) == IF IsUpper(c) THEN c + 32 ELSE c

\* code unit by code unit; U+0130 (capital I with dot above, 304) is the one
\* code unit whose lower-case form has two: 'i' and U+0307 (combining dot, 775)
RECURSIVE LowerEach(_)
LowerEach(s) ==
  IF s = <<>> THEN <<>>
  ELSE (IF Head(s) = 304 THEN <<105, 775>> ELSE <<LowerUnit(Head(s))>>) \o LowerEach(Tail(s))

\* s.toLowerCase(), on the letters the inputs use
ToLowerCase(s) ==
  IF \A i \in 1..Len(s) : s[i] # 304 THEN [i \in 1..Len(s) |-> LowerUnit(s[i])]
  ELSE LowerEach(s)

\* s.substring(a, b): code units a..b-1 (0-based), clamped to the string
Clamp(n, len) == Min(Max(n, 0), len)

Substring(s, a, b) ==
  SubSeq(s, Min(Clamp(a, Len(s)), Clamp(b, Len(s))) + 1, Max(Clamp(a, Len(s)), Clamp(b, Len(s))))

\* s.slice(0, n) for n >= 0
SliceTo(s, n) == SubSeq(s, 1, Min(n, Len(s)))

Least(S) == CHOOSE x \in S : \A y \in S : x <= y

Greatest(S) == CHOOSE x \in S : \A y \in S : x >= y

\* the first position of s that holds no white space
FirstInk(s) == CHOOSE i \in 1..Len(s) : ~IsSpace(s[i]) /\ \A j \in 1..(i - 1) : IsSpace(s[j])

\* the last position of s that holds no white space
LastInk(s) == CHOOSE i \in 1..Len(s) : ~IsSpace(s[i]) /\ \A j \in (i + 1)..Len(s) : IsSpace(s[j])

\* s.trim()
Trim(s) ==
  IF \A i \in 1..Len(s) : IsSpace(s[i]) THEN <<>> ELSE SubSeq(s, FirstInk(s), LastInk(s))

\* s.startsWith(p)
StartsWith(s, p) == Len(p) <= Len(s) /\ SubSeq(s, 1, Len(p)) = p

\* positions (1-based) at which p occurs in s
Occurrences(s, p) == {i \in 1..(Len(s) - Len(p) + 1) : SubSeq(s, i, i + Len(p) - 1) = p}

\* s.includes(p)
Includes(s, p) == Occurrences(s, p) # {}

\* s.replace(p, '') with a string pattern: the first occurrence only
CutAt(s, i, n) == SubSeq(s, 1, i - 1) \o SubSeq(s, i + n, Len(s))

ReplaceFirstWithEmpty(s, p) ==
  IF Includes(s, p) THEN CutAt(s, Least(Occurrences(s, p)), Len(p)) ELSE s

\* s.split('\n'): the pieces between line feeds (always at least one piece)
RECURSIVE SplitLines(_)
SplitAt(s, i) == <<SubSeq(s, 1, i - 1)>> \o SplitLines(SubSeq(s, i + 1, Len(s)))

LineFeeds(s) == {i \in 1..Len(s) : s[i] = 10}

SplitLines(s) == IF LineFeeds(s) = {} THEN <<s>> ELSE SplitAt(s, Least(LineFeeds(s)))

\* array.some(f) over a sequence of patterns
SomePattern(patterns, s) == \E k \in 1..Len(patterns) : Includes(s, patterns[k])

\* n copies of the code unit c
Repeat(c, n) == [i \in 1..n |-> c]

\* all sequences over S of length at most n
SeqsUpTo(S, n) == UNION {[1..k -> S] : k \in 0..n}

\* the absent value (undefined / null): no string, since code units are >= 0
Undefined == <<-1>>

(***************************************************************************)
(* SumoNewsScraper                                                         *)
(***************************************************************************)
\* "https://www.sumo.or.jp/En/"
BaseUrl ==
  <<104,116,116,112,115,58,47,47,119,119,119,46,115,117,109,111,46,111,114,46,106,112,47,69,110,47>>

\* "https://www.sumo.or.jp"
SiteOrigin ==
  <<104,116,116,112,115,58,47,47,119,119,119,46,115,117,109,111,46,111,114,46,106,112>>

\* "http"
HttpPrefix ==
  <<104,116,116,112>>

\* '/'
Slash == <<47>>

newsKeywords ==
  << <<116,111,117,114,110,97,109,101,110,116>>  (* tournament *),
     <<99,104,97,109,112,105,111,110>>  (* champion *),
     <<112,114,111,109,111,116,105,111,110>>  (* promotion *),
     <<115,117,109,111>>  (* sumo *),
     <<119,114,101,115,116,108,101,114>>  (* wrestler *),
     <<98,111,117,116>>  (* bout *),
     <<119,105,110,110,101,114>>  (* winner *),
     <<114,101,115,117,108,116>>  (* result *),
     <<114,97,110,107,105,110,103>>  (* ranking *),
     <<99,101,114,101,109,111,110,121>>  (* ceremony *),
     <<121,111,107,111,122,117,110,97>>  (* yokozuna *),
     <<111,122,101,107,105>>  (* ozeki *),
     <<115,101,107,105,119,97,107,101>>  (* sekiwake *),
     <<107,111,109,117,115,117,98,105>>  (* komusubi *),
     <<109,97,101,103,97,115,104,105,114,97>>  (* maegashira *),
     <<106,117,114,121,111>>  (* juryo *) >>

excludePatterns ==
  << <<104,111,109,101>>  (* home *),
     <<99,111,110,116,97,99,116>>  (* contact *),
     <<97,98,111,117,116>>  (* about *),
     <<112,114,105,118,97,99,121>>  (* privacy *),
     <<116,101,114,109,115>>  (* terms *),
     <<115,105,116,101,32,109,97,112>>  (* site map *),
     <<101,110,103,108,105,115,104>>  (* english *),
     <<106,97,112,97,110,101,115,101>>  (* japanese *),
     <<109,101,110,117>>  (* menu *) >>

\* isNewsContent: text.length > 10 && text.length < 200
MinNewsTextLen == 10

MaxNewsTextLen == 200

\* filterRelevantNews: title.length > 15 && title.length < 150
MinTitleLen == 15

MaxTitleLen == 150

\* relevantNews.slice(0, 5)
MaxItems == 5

\* content.trim().slice(0, 1000)
MaxContentLen == 1000

isNewsContent(text, href) ==
  /\ \E k \in 1..Len(newsKeywords) :
        \/ Includes(ToLowerCase(text), newsKeywords[k])
        \/ Includes(ToLowerCase(href), newsKeywords[k])
  /\ Len(text) > MinNewsTextLen
  /\ Len(text) < MaxNewsTextLen

\* '-' or '/', the separators of dateRegex
IsDateSep(c) == c \in {45, 47}

\* n digits at positions i .. i+n-1
DigitsAt(s, i, n) == i >= 1 /\ i + n - 1 <= Len(s) /\ \A k \in i..(i + n - 1) : IsDigit(s[k])

SepAt(s, i) == i >= 1 /\ i <= Len(s) /\ IsDateSep(s[i])

\* lengths l of a \d{1,2} group at p that is followed by a separator and then
\* by at least `tail` digits
GroupLens(s, p, tail) ==
  {l \in {1, 2} : DigitsAt(s, p, l) /\ SepAt(s, p + l) /\ DigitsAt(s, p + l + 1, tail)}

\* no match of a pattern
NoMatch == [found |-> FALSE]

\* the fields of a \d{4}[-\/]\d{1,2}[-\/]\d{1,2} match at i whose month has ml
\* digits and whose day has dl digits
YmdFields(s, i, ml, dl) ==
  [found |-> TRUE, form |-> "ymd", from |-> i, to |-> i + 5 + ml + dl,
   y |-> SubSeq(s, i, i + 3), m |-> SubSeq(s, i + 5, i + 4 + ml),
   d |-> SubSeq(s, i + 6 + ml, i + 5 + ml + dl)]

\* the day group is greedy: two digits when there are two
YmdWithMonth(s, i, ml) == YmdFields(s, i, ml, IF DigitsAt(s, i + 6 + ml, 2) THEN 2 ELSE 1)

\* \d{4}[-\/]\d{1,2}[-\/]\d{1,2} at position i
YmdAt(s, i) ==
  IF DigitsAt(s, i, 4) /\ SepAt(s, i + 4) /\ GroupLens(s, i + 5, 1) # {}
    THEN YmdWithMonth(s, i, Greatest(GroupLens(s, i + 5, 1)))
    ELSE NoMatch

\* the fields of a \d{1,2}[-\/]\d{1,2}[-\/]\d{4} match at i whose groups have
\* a and b digits
DmyFields(s, i, a, b) ==
  [found |-> TRUE, form |-> "dmy", from |-> i, to |-> i + a + b + 5,
   y |-> SubSeq(s, i + a + b + 2, i + a + b + 5), m |-> SubSeq(s, i, i + a - 1),
   d |-> SubSeq(s, i + a + 1, i + a + b)]

DmyWithFirst(s, i, a) == DmyFields(s, i, a, Greatest(GroupLens(s, i + a + 1, 4)))

\* lengths of the first group with which the rest of the pattern matches
DmyFirstLens(s, i) ==
  {a \in {1, 2} : DigitsAt(s, i, a) /\ SepAt(s, i + a) /\ GroupLens(s, i + a + 1, 4) # {}}

\* \d{1,2}[-\/]\d{1,2}[-\/]\d{4} at position i (greedy, with backtracking)
DmyAt(s, i) ==
  IF DmyFirstLens(s, i) # {} THEN DmyWithFirst(s, i, Greatest(DmyFirstLens(s, i)))
  ELSE NoMatch

\* the alternation tries its first pattern first
FirstFound(a, b) == IF a.found THEN a ELSE b

MatchAt(s, i) == FirstFound(YmdAt(s, i), DmyAt(s, i))

LeftmostMatch(s, at) == IF at = {} THEN NoMatch ELSE MatchAt(s, Least(at))

\* text.match(dateRegex): the leftmost match
DateMatch(s) == LeftmostMatch(s, {i \in 1..Len(s) : MatchAt(s, i).found})

\* the number a string of digits denotes
RECURSIVE ToNumber(_)
ToNumber(ds) ==
  IF ds = <<>> THEN 0 ELSE 10 * ToNumber(SubSeq(ds, 1, Len(ds) - 1)) + (ds[Len(ds)] - 48)

\* a month outside 1..12 or a day outside 1..31 gives an Invalid Date
DateFields(y, m, d) ==
  [year |-> y, month |-> m, day |-> d, valid |-> (m \in 1..12 /\ d \in 1..31)]

\* new Date(match[0]): the engine reads the first 1-2 digit field of a
\* month/day/year text as the month
ParsedDate(mt) == DateFields(ToNumber(mt.y), ToNumber(mt.m), ToNumber(mt.d))

\* toISOString().split('T')[0]; toISOString() throws a RangeError on an
\* Invalid Date
IsoDay(date) ==
  IF date.valid THEN [threw |-> FALSE, value |-> <<date.year, date.month, date.day>>]
  ELSE [threw |-> TRUE, value |-> Undefined]

\* the body of extractDate, given the result of text.match(dateRegex)
DateOfMatch(mt) ==
  IF mt.found THEN IsoDay(ParsedDate(mt)) ELSE [threw |-> FALSE, value |-> Undefined]

extractDate(text) == DateOfMatch(DateMatch(text))

\* new Date().toISOString().split('T')[0]: the day of the run
Today == <<2026, 1, 15>>

resolveUrl(href) ==
  IF StartsWith(href, HttpPrefix) THEN href
  ELSE IF StartsWith(href, Slash) THEN SiteOrigin \o href
  ELSE BaseUrl \o href

\* the object literal pushed onto newsItems; content, summary and processedAt
\* are properties added later
OrToday(date) == IF date # Undefined THEN date ELSE Today

NewsItem(title, href) ==
  [title |-> title, url |-> resolveUrl(href),
   date |-> OrToday(extractDate(title).value),
   rawText |-> title, content |-> Undefined, summary |-> Undefined,
   processedAt |-> Undefined]

\* the key without toLowerCase(): titles that differ in case are both kept
DedupKeyCaseSensitive(item) == Trim(item.title)

\* item.title.toLowerCase().trim()
DedupKey(item) == Trim(ToLowerCase(item.title))

RECURSIVE RemoveDuplicatesSeen(_, _)
RemoveDuplicatesSeen(newsItems, seen) ==
  IF newsItems = <<>> THEN <<>>
  ELSE IF DedupKey(Head(newsItems)) \in seen THEN RemoveDuplicatesSeen(Tail(newsItems), seen)
  ELSE <<Head(newsItems)>>
         \o RemoveDuplicatesSeen(Tail(newsItems), seen \cup {DedupKey(Head(newsItems))})

\* the list back to front
Reverse(s) == [i \in 1..Len(s) |-> s[Len(s) + 1 - i]]

\* removeDuplicates in which a later item replaces the earlier one of its key
removeDuplicatesKeepLast(newsItems) ==
  Reverse(RemoveDuplicatesSeen(Reverse(newsItems), {}))

removeDuplicates(newsItems) == RemoveDuplicatesSeen(newsItems, {})

\* the filter comparing the title as written, without toLowerCase()
IsRelevantCaseSensitive(item) ==
  /\ ~SomePattern(excludePatterns, item.title)
  /\ Len(item.title) > MinTitleLen
  /\ Len(item.title) < MaxTitleLen

\* the filter with an inclusive lower limit
IsRelevantInclusive(item) ==
  /\ ~SomePattern(excludePatterns, ToLowerCase(item.title))
  /\ Len(item.title) >= MinTitleLen
  /\ Len(item.title) < MaxTitleLen

IsRelevant(item) ==
  /\ ~SomePattern(excludePatterns, ToLowerCase(item.title))
  /\ Len(item.title) > MinTitleLen
  /\ Len(item.title) < MaxTitleLen

\* the filter whose callback keeps every item
filterRelevantNewsKeepAll(newsItems) == newsItems

filterRelevantNews(newsItems) == SelectSeq(newsItems, IsRelevant)

\* $('a').each: text = $link.text().trim(), href = $link.attr('href')
LinkPasses(a) ==
  /\ Trim(a.text) # <<>>
  /\ a.href # Undefined /\ a.href # <<>>
  /\ isNewsContent(Trim(a.text), a.href)

LinkItems(hits) == [i \in 1..Len(hits) |-> NewsItem(Trim(hits[i].text), hits[i].href)]

LinkCandidates(page) == LinkItems(SelectSeq(page.anchors, LinkPasses))

\* $('.news-item, .what-new, [class*="news"]').each:
\* title = $item.find('a').text().trim() || $item.text().trim()
SectionTitle(e) == IF Trim(e.linkText) # <<>> THEN Trim(e.linkText) ELSE Trim(e.text)

SectionPasses(e) == SectionTitle(e) # <<>> /\ e.href # Undefined /\ e.href # <<>>

SectionItems(hits) == [i \in 1..Len(hits) |-> NewsItem(SectionTitle(hits[i]), hits[i].href)]

SectionCandidates(page) == SectionItems(SelectSeq(page.sections, SectionPasses))

\* the candidates pushed by the two scans, in push order
Candidates(page) == LinkCandidates(page) \o SectionCandidates(page)

\* extractDate throws inside one of the two each() callbacks
ExtractThrows(page) ==
  \/ \E i \in 1..Len(page.anchors) :
        LinkPasses(page.anchors[i]) /\ extractDate(Trim(page.anchors[i].text)).threw
  \/ \E i \in 1..Len(page.sections) :
        SectionPasses(page.sections[i]) /\ extractDate(SectionTitle(page.sections[i])).threw

\* the try block returning relevantNews whole, without slice(0, 5)
ScrapeNewsTryNoSlice(listing) ==
  IF ~listing.ok \/ ExtractThrows(listing.page) THEN [threw |-> TRUE, value |-> <<>>]
  ELSE [threw |-> FALSE,
        value |-> filterRelevantNews(removeDuplicates(Candidates(listing.page)))]

\* the try block of scrapeNews; listing.ok is FALSE when axios.get rejects
ScrapeNewsTry(listing) ==
  IF ~listing.ok \/ ExtractThrows(listing.page) THEN [threw |-> TRUE, value |-> <<>>]
  ELSE [threw |-> FALSE,
        value |-> SliceTo(filterRelevantNews(removeDuplicates(Candidates(listing.page))),
                          MaxItems)]

\* scrapeNews without its catch block: the rejection reaches the caller
scrapeNewsNoCatch(listing) == ScrapeNewsTry(listing)

\* catch (error) { console.error(...); return []; }
CatchReturnEmpty(try) == IF try.threw THEN [threw |-> FALSE, value |-> <<>>] ELSE try

scrapeNews(listing) == CatchReturnEmpty(ScrapeNewsTry(listing))

\* the try block returning the trimmed text whole, without slice(0, 1000)
ScrapeArticleContentTryNoSlice(response) ==
  IF ~response.ok THEN [threw |-> TRUE, value |-> <<>>]
  ELSE [threw |-> FALSE, value |-> Trim(response.text)]

\* scrapeArticleContent: response.ok is FALSE when axios.get rejects;
\* response.text is the joined text of the selected elements
ScrapeArticleContentTry(response) ==
  IF ~response.ok THEN [threw |-> TRUE, value |-> <<>>]
  ELSE [threw |-> FALSE, value |-> SliceTo(Trim(response.text), MaxContentLen)]

\* scrapeArticleContent without its catch block
scrapeArticleContentNoCatch(response) == ScrapeArticleContentTry(response)

\* the catch block logs and returns ''
scrapeArticleContent(response) == CatchReturnEmpty(ScrapeArticleContentTry(response))

(***************************************************************************)
(* AIProcessor                                                             *)
(***************************************************************************)
\* the two code units of U+1F94B (martial arts uniform), then a space
FallbackPrefix ==
  <<55358,56651,32>>

\* "..."
Ellipsis ==
  <<46,46,46>>

\* "Sumo Wrestling News Update"
DefaultSubject ==
  <<83,117,109,111,32,87,114,101,115,116,108,105,110,103,32,78,101,119,115,32,85,112,100,97,116,101>>

\* "Here are the latest updates from the world of sumo wrestling!"
DefaultIntro ==
  <<72,101,114,101,32,97,114,101,32,116,104,101,32,108,97,116,101,115,116,32,117,112,100,97,116,101,115,32,102,114,111,109,32,116,104,101,32,119,111,114,108,100,32,111,102,32,115,117,109,111,32,119,114,101,115,116,108,105,110,103,33>>

\* "SUBJECT:"
SubjectLabel ==
  <<83,85,66,74,69,67,84,58>>

\* "INTRO:"
IntroLabel ==
  <<73,78,84,82,79,58>>

\* summary.length > 280
MaxSummaryLen == 280

\* summary.substring(0, 277)
SummaryKeep == 277

\* title.length <= 280
FallbackTitleLimit == 280

\* title.substring(0, 275)
FallbackKeep == 275

\* the fallback without the prefix
createFallbackSummaryBare(newsItem) == SliceTo(newsItem.title, FallbackTitleLimit)

\* the fallback that appends the item's url to the title
createFallbackSummaryWithUrl(newsItem) ==
  IF Len(newsItem.title) <= FallbackTitleLimit
    THEN FallbackPrefix \o newsItem.title \o <<32>> \o newsItem.url
  ELSE FallbackPrefix \o Substring(newsItem.title, 0, FallbackKeep) \o Ellipsis

createFallbackSummary(newsItem) ==
  IF Len(newsItem.title) <= FallbackTitleLimit THEN FallbackPrefix \o newsItem.title
  ELSE FallbackPrefix \o Substring(newsItem.title, 0, FallbackKeep) \o Ellipsis

\* the truncation that keeps as many code units as the limit before the marker
BoundedKeepLimit(summary) ==
  IF Len(summary) > MaxSummaryLen THEN Substring(summary, 0, MaxSummaryLen) \o Ellipsis
  ELSE summary

\* the try block of createTweetLikeSummary, given the text of a settled call
\* summary.length > 280 ? summary.substring(0, 277) + '...' : summary
Bounded(summary) ==
  IF Len(summary) > MaxSummaryLen THEN Substring(summary, 0, SummaryKeep) \o Ellipsis
  ELSE summary

PrimarySummary(text) == Bounded(Trim(text))

\* createTweetLikeSummary without its catch block
createTweetLikeSummaryNoCatch(newsItem, reply) ==
  IF reply.ok /\ reply.text # Undefined
    THEN [threw |-> FALSE, value |-> PrimarySummary(reply.text)]
    ELSE [threw |-> TRUE, value |-> Undefined]

\* reply.ok is FALSE when openai.chat.completions.create rejects; a reply
\* without message content makes .trim() throw inside the try block
createTweetLikeSummary(newsItem, reply) ==
  IF reply.ok /\ reply.text # Undefined
    THEN [threw |-> FALSE, value |-> PrimarySummary(reply.text)]
    ELSE [threw |-> FALSE, value |-> createFallbackSummary(newsItem)]

\* the object pushed by processBatch for one item: {...item, summary, processedAt}
Summarized(item, summary, now) ==
  [item EXCEPT !.summary = summary, !.processedAt = <<now>>]

DefaultMeta == [subject |-> DefaultSubject, intro |-> DefaultIntro]

\* the step that accepts a label anywhere in the line
ParseLineAnywhere(meta, line) ==
  IF Includes(line, SubjectLabel)
    THEN [meta EXCEPT !.subject = Trim(ReplaceFirstWithEmpty(line, SubjectLabel))]
  ELSE IF Includes(line, IntroLabel)
    THEN [meta EXCEPT !.intro = Trim(ReplaceFirstWithEmpty(line, IntroLabel))]
  ELSE meta

\* one step of lines.forEach
ParseLine(meta, line) ==
  IF StartsWith(line, SubjectLabel)
    THEN [meta EXCEPT !.subject = Trim(ReplaceFirstWithEmpty(line, SubjectLabel))]
  ELSE IF StartsWith(line, IntroLabel)
    THEN [meta EXCEPT !.intro = Trim(ReplaceFirstWithEmpty(line, IntroLabel))]
  ELSE meta

RECURSIVE ParseLines(_, _)
ParseLines(meta, lines) ==
  IF lines = <<>> THEN meta ELSE ParseLines(ParseLine(meta, Head(lines)), Tail(lines))

\* createEmailDigest whose catch block returns nothing
createEmailDigestNoDefault(summaries, reply) ==
  IF reply.ok /\ reply.text # Undefined
    THEN [threw |-> FALSE, value |-> ParseLines(DefaultMeta, SplitLines(Trim(reply.text)))]
    ELSE [threw |-> FALSE, value |-> [subject |-> Undefined, intro |-> Undefined]]

createEmailDigest(summaries, reply) ==
  IF reply.ok /\ reply.text # Undefined
    THEN [threw |-> FALSE, value |-> ParseLines(DefaultMeta, SplitLines(Trim(reply.text)))]
    ELSE [threw |-> FALSE, value |-> DefaultMeta]

(***************************************************************************)
(* EmailSender                                                             *)
(***************************************************************************)
\* what sendNewsDigest returns when it returns nothing
NoResult == [defined |-> FALSE, success |-> FALSE, messageId |-> Undefined, error |-> Undefined]

\* mailOptions as handed to transporter.sendMail
MailOptions(summaries, emailMeta) ==
  [subject |-> emailMeta.subject, intro |-> emailMeta.intro, items |-> summaries]

\* the urls of the items of a mail
MailUrls(mail) == {mail.items[i].url : i \in 1..Len(mail.items)}

\* return { success: true, messageId: info.messageId } after sendMail settled,
\* return { success: false, error: error.message } from the catch block
SendOutcome(transport) ==
  [defined |-> TRUE, success |-> transport.ok, messageId |-> transport.messageId,
   error |-> transport.message]

\* transport.ok is FALSE when transporter.sendMail rejects
sendNewsDigest(summaries, emailMeta, transport) ==
  IF Len(summaries) = 0 THEN [threw |-> FALSE, value |-> NoResult, mails |-> <<>>]
  ELSE [threw |-> FALSE, value |-> SendOutcome(transport),
        mails |-> <<MailOptions(summaries, emailMeta)>>]

\* verify.ok is FALSE when transporter.verify rejects
testConnection(verify) == [threw |-> FALSE, value |-> verify.ok]

(***************************************************************************)
(* The environment: listing pages, article pages, backend and transport    *)
(***************************************************************************)
\* "Terunofuji wins July tournament 13-2"
TitleTerunofuji ==
  <<84,101,114,117,110,111,102,117,106,105,32,119,105,110,115,32,74,117,108,121,32,116,111,117,114,110,97,109,101,110,116,32,49,51,45,50>>

\* "TERUNOFUJI WINS JULY TOURNAMENT 13-2"
TitleTerunofujiUpper ==
  <<84,69,82,85,78,79,70,85,74,73,32,87,73,78,83,32,74,85,76,89,32,84,79,85,82,78,65,77,69,78,84,32,49,51,45,50>>

\* "Home"
TitleHome ==
  <<72,111,109,101>>

\* "Contact"
TitleContact ==
  <<67,111,110,116,97,99,116>>

\* "Onosato promoted to sekiwake after 11-4 record"
TitleOnosato ==
  <<79,110,111,115,97,116,111,32,112,114,111,109,111,116,101,100,32,116,111,32,115,101,107,105,119,97,107,101,32,97,102,116,101,114,32,49,49,45,52,32,114,101,99,111,114,100>>

\* "Ticket sales open for the Nagoya basho"
TitleTickets ==
  <<84,105,99,107,101,116,32,115,97,108,101,115,32,111,112,101,110,32,102,111,114,32,116,104,101,32,78,97,103,111,121,97,32,98,97,115,104,111>>

\* "/En/news/terunofuji"
HrefTerunofuji ==
  <<47,69,110,47,110,101,119,115,47,116,101,114,117,110,111,102,117,106,105>>

\* "news/terunofuji-2"
HrefTerunofujiAlt ==
  <<110,101,119,115,47,116,101,114,117,110,111,102,117,106,105,45,50>>

\* "https://www.sumo.or.jp/En/news/onosato"
HrefOnosato ==
  <<104,116,116,112,115,58,47,47,119,119,119,46,115,117,109,111,46,111,114,46,106,112,47,69,110,47,110,101,119,115,47,111,110,111,115,97,116,111>>

\* "/En/"
HrefHome ==
  <<47,69,110,47>>

\* "contact.html"
HrefContact ==
  <<99,111,110,116,97,99,116,46,104,116,109,108>>

\* "/En/tickets"
HrefTickets ==
  <<47,69,110,47,116,105,99,107,101,116,115>>

\* "/En/bout/"
HrefBout ==
  <<47,69,110,47,98,111,117,116,47>>

\* "Sumo bout report "
BoutTitleStem ==
  <<83,117,109,111,32,98,111,117,116,32,114,101,112,111,114,116,32>>

\* "  Full report of the day.  "
ShortArticle ==
  <<32,32,70,117,108,108,32,114,101,112,111,114,116,32,111,102,32,116,104,101,32,100,97,121,46,32,32>>

\* " Big news: "
ReplyLead ==
  <<32,66,105,103,32,110,101,119,115,58,32>>

\* "SUBJECT: Sumo thrills\nINTRO: Big week in sumo!"
ReplySubjectIntro ==
  <<83,85,66,74,69,67,84,58,32,83,117,109,111,32,116,104,114,105,108,108,115,10,73,78,84,82,79,58,32,66,105,103,32,119,101,101,107,32,105,110,32,115,117,109,111,33>>

\* "1. SUBJECT: Sumo thrills\n2. INTRO: Big week in sumo!"
ReplyNumbered ==
  <<49,46,32,83,85,66,74,69,67,84,58,32,83,117,109,111,32,116,104,114,105,108,108,115,10,50,46,32,73,78,84,82,79,58,32,66,105,103,32,119,101,101,107,32,105,110,32,115,117,109,111,33>>

\* "  SUBJECT: Sumo thrills\nEnjoy the digest"
ReplySubjectOnly ==
  <<32,32,83,85,66,74,69,67,84,58,32,83,117,109,111,32,116,104,114,105,108,108,115,10,69,110,106,111,121,32,116,104,101,32,100,105,103,101,115,116>>

\* "Hello fans\nINTRO: Big week in sumo!\n"
ReplyIntroOnly ==
  <<72,101,108,108,111,32,102,97,110,115,10,73,78,84,82,79,58,32,66,105,103,32,119,101,101,107,32,105,110,32,115,117,109,111,33,10>>

\* "SUBJECT: First\nSUBJECT: Second\nINTRO: One\nINTRO: Two"
ReplyTwoSubjects ==
  <<83,85,66,74,69,67,84,58,32,70,105,114,115,116,10,83,85,66,74,69,67,84,58,32,83,101,99,111,110,100,10,73,78,84,82,79,58,32,79,110,101,10,73,78,84,82,79,58,32,84,119,111>>

\* "1. SUBJECT: Zero\nSUBJECT: First\nSUBJECT: Second\n2. INTRO: None"
ReplyMixed ==
  <<49,46,32,83,85,66,74,69,67,84,58,32,90,101,114,111,10,83,85,66,74,69,67,84,58,32,70,105,114,115,116,10,83,85,66,74,69,67,84,58,32,83,101,99,111,110,100,10,50,46,32,73,78,84,82,79,58,32,78,111,110,101>>

\* "Here is your digest, enjoy the basho"
ReplyPlain ==
  <<72,101,114,101,32,105,115,32,121,111,117,114,32,100,105,103,101,115,116,44,32,101,110,106,111,121,32,116,104,101,32,98,97,115,104,111>>

\* an <a> element: its text and its href attribute
Anchor(text, href) == [text |-> text, href |-> href]

\* an element matched by '.news-item, .what-new, [class*="news"]': the joined
\* text of the anchors inside it, its own text, the first inside anchor's href
Section(linkText, text, href) == [linkText |-> linkText, text |-> text, href |-> href]

\* "Sumo bout report <n>", a link to /En/bout/<n>
BoutAnchor(n) == Anchor(<<32>> \o BoutTitleStem \o <<48 + n>> \o <<32>>, HrefBout \o <<48 + n>>)

EmptyPage == [anchors |-> <<>>, sections |-> <<>>]

\* only navigation links
PageNavigation ==
  [anchors |-> <<Anchor(TitleHome, HrefHome), Anchor(TitleContact, HrefContact)>>,
   sections |-> <<>>]

\* two news links around a navigation link
PageExample ==
  [anchors |-> <<Anchor(TitleTerunofuji, HrefTerunofuji), Anchor(TitleHome, HrefHome),
                 Anchor(TitleOnosato, HrefOnosato)>>,
   sections |-> <<>>]

\* the same three titles inside news sections
PageExampleSections ==
  [anchors |-> <<>>,
   sections |-> <<Section(TitleTerunofuji, TitleTerunofuji, HrefTerunofuji),
                  Section(TitleHome, TitleHome, HrefHome),
                  Section(TitleOnosato, TitleOnosato, HrefOnosato)>>]

\* a title repeated in another case and again inside a news section, and a
\* news section whose title has no keyword
PageMixed ==
  [anchors |-> <<Anchor(TitleOnosato, HrefOnosato), Anchor(TitleTerunofujiUpper, HrefTerunofujiAlt),
                 Anchor(TitleTerunofuji, HrefTerunofuji)>>,
   sections |-> <<Section(TitleOnosato, TitleOnosato, HrefOnosato),
                  Section(<<>>, TitleTickets, Undefined),
                  Section(TitleTickets, TitleTickets, HrefTickets)>>]

\* "Ranking announced 2024-13-45 for the autumn basho"
TitleBadDate ==
  <<82,97,110,107,105,110,103,32,97,110,110,111,117,110,99,101,100,32,50,48,50,52,45,49,51,45,52,53,32,102,111,114,32,116,104,101,32,97,117,116,117,109,110,32,98,97,115,104,111>>

\* "/En/results"
HrefDated ==
  <<47,69,110,47,114,101,115,117,108,116,115>>

\* a news link next to a link whose title holds date-like digits that form no
\* date
PageBadDate ==
  [anchors |-> <<Anchor(TitleTerunofuji, HrefTerunofuji), Anchor(TitleBadDate, HrefDated)>>,
   sections |-> <<>>]

\* the number of bout reports the busiest listing page links to
MaxBouts == 4

\* more relevant links than one digest takes
PageBusy ==
  [anchors |-> <<Anchor(TitleTerunofuji, HrefTerunofuji), Anchor(TitleOnosato, HrefOnosato)>>
                 \o [n \in 1..MaxBouts |-> BoutAnchor(n)],
   sections |-> <<>>]

Pages == {PageNavigation, PageExample, PageExampleSections, PageMixed, PageBusy, PageBadDate}

\* the settled listing request: ok is FALSE when axios.get rejects
Listings == {[ok |-> o, page |-> p] : o \in BOOLEAN, p \in Pages}

\* "terunofuji"
TerunofujiSlug == <<116,101,114,117,110,111,102,117,106,105>>

\* "tickets"
TicketsSlug == <<116,105,99,107,101,116,115>>

\* the text the selectors of scrapeArticleContent yield on the page at url:
\* longer than the content limit, blank, or short
ArticleText(url) ==
  IF Includes(url, TerunofujiSlug) THEN <<32, 10>> \o Repeat(97, MaxContentLen + 3)
  ELSE IF Includes(url, TicketsSlug) THEN <<32, 32, 10>>
  ELSE ShortArticle

ArticleResponses(url) ==
  {[ok |-> FALSE, text |-> Undefined], [ok |-> TRUE, text |-> ArticleText(url)]}

\* newsItem.content || ''
ContentOrEmpty(item) == IF item.content = Undefined THEN <<>> ELSE item.content

\* the text of a settled summarization call: it grows with the prompt's context
SummaryText(item) == ReplyLead \o item.title \o <<32>> \o ContentOrEmpty(item) \o <<32, 10>>

FailedReply == [ok |-> FALSE, text |-> Undefined]

SummaryReplies(item) == {FailedReply, [ok |-> TRUE, text |-> SummaryText(item)]}

DigestReplies == {FailedReply, [ok |-> TRUE, text |-> ReplySubjectIntro]}

\* "<20260115.1@sumo.or.jp>"
MessageId ==
  <<60,50,48,50,54,48,49,49,53,46,49,64,115,117,109,111,46,111,114,46,106,112,62>>

\* "connect ECONNREFUSED"
RefusedMessage ==
  <<99,111,110,110,101,99,116,32,69,67,79,78,78,82,69,70,85,83,69,68>>

\* transporter.sendMail settled: info.messageId, or the error's message
Transports ==
  {[ok |-> TRUE, messageId |-> MessageId, message |-> Undefined],
   [ok |-> FALSE, messageId |-> Undefined, message |-> RefusedMessage]}

\* "sk-test"
ConfiguredKey ==
  <<115,107,45,116,101,115,116>>

\* the object literal testComponents() hands to createTweetLikeSummary
\* 'Test Sumo Tournament Results', 'https://example.com', 'Test content'
TestItem ==
  [title |-> <<84,101,115,116,32,83,117,109,111,32,84,111,117,114,110,97,109,101,110,116,32,82,101,115,117,108,116,115>>,
   url |-> <<104,116,116,112,115,58,47,47,101,120,97,109,112,108,101,46,99,111,109>>,
   content |-> <<84,101,115,116,32,99,111,110,116,101,110,116>>]

\* transporter.verify settled
Verifications == {[ok |-> TRUE], [ok |-> FALSE]}

(***************************************************************************)
(* SumoNewsApp: the command line, run() and testComponents(), one step per *)
(* await                                                                   *)
(***************************************************************************)
VARIABLES
  pc,              \* where run() or testComponents() is
  listing,         \* the settled listing request of this run
  newsItems,       \* const newsItems (the items gain content in place)
  idx,             \* position of the for-of loop in progress
  processedItems,  \* summaries of processBatch / processedItems of run
  emailMeta,       \* const emailMeta
  result,          \* const result
  outcome,         \* how the promise of run() or testComponents() settled
  log,             \* the external calls and pauses of this run, in order
  sent,            \* the mails this run handed to transporter.sendMail
  delivered,       \* the urls of the digests earlier runs delivered
  probe,           \* a direct call of one method: its arguments and its result
  args,            \* process.argv.slice(2)
  apiKey,          \* process.env.OPENAI_API_KEY
  inflight         \* the external calls and timers issued and not yet settled

vars ==
  <<pc, listing, newsItems, idx, processedItems, emailMeta, result, outcome, log, sent,
    delivered, probe, args, apiKey, inflight>>

runVars ==
  <<pc, listing, newsItems, idx, processedItems, emailMeta, result, outcome, log, sent,
    delivered, args, apiKey, inflight>>

NoMeta == [subject |-> Undefined, intro |-> Undefined]

NoProbe == [fn |-> "none", called |-> FALSE]

Call(op, ok) == [op |-> op, ok |-> ok]

\* the timer of `await new Promise(resolve => setTimeout(resolve, 1000))`
Pause == [op |-> "pause", ok |-> TRUE]

\* new Date().toISOString(): the number of calls and pauses so far
Now == Len(log)

\* args.includes(flag)
IncludesArg(a, flag) == \E i \in 1..Len(a) : a[i] = flag

\* a dispatch that looks at the first argument only
DispatchFirstArg(a) ==
  IF a # <<>> /\ a[1] = "--test" THEN "test"
  ELSE IF a # <<>> /\ a[1] = "--help" THEN "help"
  ELSE "run"

\* if (args.includes('--test')) ... else if (args.includes('--help')) ... else
Dispatch(a) ==
  IF IncludesArg(a, "--test") THEN "test"
  ELSE IF IncludesArg(a, "--help") THEN "help"
  ELSE "run"

\* if (process.env.OPENAI_API_KEY): set and not the empty string
Truthy(value) == value # Undefined /\ value # <<>>

\* what the function at position p awaits
AwaitedAt(p) ==
  CASE p \in {"scrape", "testScraper"} -> {"listing"}
    [] p = "fetch" -> {"article"}
    [] p \in {"fetchPause", "summarizePause"} -> {"pause"}
    [] p \in {"summarize", "testAI"} -> {"summary"}
    [] p = "compose" -> {"digest"}
    [] p = "send" -> {"send"}
    [] p = "testEmail" -> {"verify"}
    [] OTHER -> {}

\* run()'s catch block logs the error: the promise resolves either way
RunSettles(threw) == "resolved"

\* run() without the early return: the loops over no items do nothing and
\* the digest is composed next
AfterScrapeNoReturn(items) == IF Len(items) = 0 THEN "compose" ELSE "fetch"

\* if (newsItems.length === 0) return; otherwise on to the article loop
AfterScrape(items) == IF Len(items) = 0 THEN "done" ELSE "fetch"

\* the article loop whose timer is started but not awaited: the next call is
\* issued at once
AfterArticleNoAwait(i, n) ==
  IF i < n THEN [pc |-> "fetch", idx |-> i + 1, issued |-> {"pause", "article"}]
  ELSE [pc |-> "summarize", idx |-> 1, issued |-> {"pause", "summary"}]

\* item.content = ...; await new Promise(resolve => setTimeout(resolve, 1000))
AfterArticle(i, n) == [pc |-> "fetchPause", idx |-> i, issued |-> {"pause"}]

\* run() sending again after a failed send
AfterSendRetry(res) == IF res.success THEN "done" ELSE "send"

\* both branches on result.success only log, and run() falls off its end
AfterSend(res) == "done"

\* if (process.env.OPENAI_API_KEY) { ... } else { console.log('AI: Skipped') }
AfterTestScraper(key) == IF Truthy(key) THEN "testAI" ELSE "done"

\* bound on the mails one run hands to the transport (run() as written hands it one)
MaxSends == 2

RunInit ==
  /\ pc = "idle"
  /\ listing = [ok |-> FALSE, page |-> EmptyPage]
  /\ newsItems = <<>>
  /\ idx = 0
  /\ processedItems = <<>>
  /\ emailMeta = NoMeta
  /\ result = NoResult
  /\ outcome = "pending"
  /\ log = <<>>
  /\ sent = <<>>
  /\ delivered = {}
  /\ inflight = {}

\* node src/index.js, with the key configured
NoArgs == args = <<>> /\ apiKey = ConfiguredKey

Init == RunInit /\ NoArgs /\ probe = NoProbe

\* node src/index.js: app.run() up to `await this.scraper.scrapeNews()`
StartRun ==
  /\ pc = "idle"
  /\ Dispatch(args) = "run"
  /\ pc' = "scrape"
  /\ inflight' = inflight \cup AwaitedAt(pc')
  /\ UNCHANGED <<listing, newsItems, idx, processedItems, emailMeta, result, outcome, log,
                 sent, delivered, probe, args, apiKey>>

\* scrapeNews settles; run returns early on an empty list
Scrape ==
  /\ pc = "scrape"
  /\ \E l \in Listings :
       \E r \in {scrapeNews(l)} :
           /\ listing' = l
           /\ log' = Append(log, Call("listing", l.ok))
           /\ newsItems' = r.value
           /\ IF r.threw THEN pc' = "done" /\ outcome' = RunSettles(TRUE) /\ idx' = idx
              ELSE /\ pc' = AfterScrape(r.value)
                   /\ outcome' = IF pc' = "done" THEN RunSettles(FALSE) ELSE outcome
                   /\ idx' = IF pc' = "fetch" THEN 1 ELSE idx
  /\ inflight' = (inflight \ AwaitedAt(pc)) \cup AwaitedAt(pc')
  /\ UNCHANGED <<processedItems, emailMeta, result, sent, delivered, probe, args, apiKey>>

\* item.content = await this.scraper.scrapeArticleContent(item.url)
FetchArticle ==
  /\ pc = "fetch"
  /\ \E response \in ArticleResponses(newsItems[idx].url) :
       \E r \in {scrapeArticleContent(response)}, next \in {AfterArticle(idx, Len(newsItems))} :
           /\ log' = Append(log, Call("article", response.ok))
           /\ IF r.threw
                THEN /\ pc' = "done" /\ outcome' = RunSettles(TRUE) /\ newsItems' = newsItems
                     /\ idx' = idx
                     /\ inflight' = inflight \ AwaitedAt(pc)
                ELSE /\ pc' = next.pc
                     /\ idx' = next.idx
                     /\ outcome' = outcome
                     /\ newsItems' = [newsItems EXCEPT ![idx].content = r.value]
                     /\ inflight' = (inflight \ AwaitedAt(pc)) \cup next.issued
  /\ UNCHANGED <<listing, processedItems, emailMeta, result, sent, delivered, probe, args,
                 apiKey>>

\* the article loop fetching a page once more after its request failed
FetchPauseRetry ==
  /\ pc = "fetchPause"
  /\ log' = Append(log, Pause)
  /\ IF ~log[Len(log)].ok /\ Cardinality({k \in 1..Len(log) : log[k].op = "article"}) = idx
       THEN pc' = "fetch" /\ idx' = idx
     ELSE IF idx < Len(newsItems) THEN pc' = "fetch" /\ idx' = idx + 1
     ELSE pc' = "summarize" /\ idx' = 1
  /\ inflight' = (inflight \ AwaitedAt(pc)) \cup AwaitedAt(pc')
  /\ UNCHANGED <<listing, newsItems, processedItems, emailMeta, result, outcome, sent,
                 delivered, probe, args, apiKey>>

\* the rate-limiting timer of the article loop, then the next item or processBatch
FetchPause ==
  /\ pc = "fetchPause"
  /\ log' = Append(log, Pause)
  /\ IF idx < Len(newsItems) THEN pc' = "fetch" /\ idx' = idx + 1
     ELSE pc' = "summarize" /\ idx' = 1
  /\ inflight' = (inflight \ AwaitedAt(pc)) \cup AwaitedAt(pc')
  /\ UNCHANGED <<listing, newsItems, processedItems, emailMeta, result, outcome, sent,
                 delivered, probe, args, apiKey>>

\* processBatch: const summary = await this.createTweetLikeSummary(item); push
Summarize ==
  /\ pc = "summarize"
  /\ \E reply \in SummaryReplies(newsItems[idx]) :
       \E r \in {createTweetLikeSummary(newsItems[idx], reply)} :
           /\ log' = Append(log, Call("summary", reply.ok))
           /\ IF r.threw
                THEN /\ pc' = "done" /\ outcome' = RunSettles(TRUE)
                     /\ processedItems' = processedItems
                ELSE /\ pc' = "summarizePause"
                     /\ outcome' = outcome
                     /\ processedItems' =
                          Append(processedItems, Summarized(newsItems[idx], r.value, Now))
  /\ inflight' = (inflight \ AwaitedAt(pc)) \cup AwaitedAt(pc')
  /\ UNCHANGED <<listing, newsItems, idx, emailMeta, result, sent, delivered, probe, args,
                 apiKey>>

\* the rate-limiting timer of processBatch, then the next item or the return
SummarizePause ==
  /\ pc = "summarizePause"
  /\ log' = Append(log, Pause)
  /\ IF idx < Len(newsItems) THEN pc' = "summarize" /\ idx' = idx + 1
     ELSE pc' = "compose" /\ idx' = idx
  /\ inflight' = (inflight \ AwaitedAt(pc)) \cup AwaitedAt(pc')
  /\ UNCHANGED <<listing, newsItems, processedItems, emailMeta, result, outcome, sent,
                 delivered, probe, args, apiKey>>

\* const emailMeta = await this.aiProcessor.createEmailDigest(processedItems)
Compose ==
  /\ pc = "compose"
  /\ \E reply \in DigestReplies :
       \E r \in {createEmailDigest(processedItems, reply)} :
           /\ log' = Append(log, Call("digest", reply.ok))
           /\ IF r.threw
                THEN pc' = "done" /\ outcome' = RunSettles(TRUE) /\ emailMeta' = emailMeta
                ELSE pc' = "send" /\ outcome' = outcome /\ emailMeta' = r.value
  /\ inflight' = (inflight \ AwaitedAt(pc)) \cup AwaitedAt(pc')
  /\ UNCHANGED <<listing, newsItems, idx, processedItems, result, sent, delivered, probe,
                 args, apiKey>>

\* const result = await this.emailSender.sendNewsDigest(...); result.success
\* is read next, which throws when result is undefined
Send ==
  /\ pc = "send"
  /\ Len(sent) < MaxSends
  /\ \E transport \in Transports :
       \E r \in {sendNewsDigest(processedItems, emailMeta, transport)} :
           /\ log' = log \o [i \in 1..Len(r.mails) |-> Call("send", transport.ok)]
           /\ sent' = sent \o r.mails
           /\ result' = r.value
           /\ pc' = IF r.threw \/ ~r.value.defined THEN "done" ELSE AfterSend(r.value)
           /\ outcome' = IF pc' = "done" THEN RunSettles(r.threw \/ ~r.value.defined)
                          ELSE outcome
  /\ inflight' = (inflight \ AwaitedAt(pc)) \cup AwaitedAt(pc')
  /\ UNCHANGED <<listing, newsItems, idx, processedItems, emailMeta, delivered, probe, args,
                 apiKey>>

RunStep == Scrape \/ FetchArticle \/ FetchPause \/ Summarize \/ SummarizePause \/ Compose \/ Send

Next == StartRun \/ RunStep

Spec == Init /\ [][Next]_vars

\* the event loop resumes run() whenever the awaited call or timer has settled
FairSpec == Spec /\ WF_vars(Next)

\* the scheduled task starts the program again: a new process, a new
\* SumoNewsApp, nothing kept from the run before
Restart ==
  /\ pc = "done"
  /\ pc' = "scrape"
  /\ delivered' = delivered \cup
       (IF result.defined /\ result.success
          THEN UNION {MailUrls(sent[k]) : k \in 1..Len(sent)} ELSE {})
  /\ listing' = [ok |-> FALSE, page |-> EmptyPage]
  /\ newsItems' = <<>>
  /\ idx' = 0
  /\ processedItems' = <<>>
  /\ emailMeta' = NoMeta
  /\ result' = NoResult
  /\ outcome' = "pending"
  /\ log' = <<>>
  /\ sent' = <<>>
  /\ inflight' = AwaitedAt(pc')
  /\ UNCHANGED <<probe, args, apiKey>>

RepeatNext == Next \/ Restart

RepeatSpec == Init /\ [][RepeatNext]_vars

(***************************************************************************)
(* The command line with arguments: --test runs testComponents(), --help   *)
(* prints the usage, anything else runs run()                              *)
(***************************************************************************)
\* the most command line arguments
MaxArgs == 2

Flags == {"--test", "--help", "--dry-run"}

ArgLists == SeqsUpTo(Flags, MaxArgs)

\* unset, empty, or a key
ApiKeys == {Undefined, <<>>, ConfiguredKey}

CliInit == RunInit /\ args \in ArgLists /\ apiKey \in ApiKeys /\ probe = NoProbe

\* app.testComponents() up to `await this.emailSender.testConnection()`
StartTest ==
  /\ pc = "idle"
  /\ Dispatch(args) = "test"
  /\ pc' = "testEmail"
  /\ inflight' = inflight \cup AwaitedAt(pc')
  /\ UNCHANGED <<listing, newsItems, idx, processedItems, emailMeta, result, outcome, log,
                 sent, delivered, probe, args, apiKey>>

\* const emailOk = await this.emailSender.testConnection(), outside any try
TestEmail ==
  /\ pc = "testEmail"
  /\ \E verify \in Verifications :
       \E r \in {testConnection(verify)} :
           /\ log' = Append(log, Call("verify", verify.ok))
           /\ pc' = IF r.threw THEN "done" ELSE "testScraper"
           /\ outcome' = IF r.threw THEN "rejected" ELSE outcome
  /\ inflight' = (inflight \ AwaitedAt(pc)) \cup AwaitedAt(pc')
  /\ UNCHANGED <<listing, newsItems, idx, processedItems, emailMeta, result, sent, delivered,
                 probe, args, apiKey>>

\* try { const news = await this.scraper.scrapeNews(); ... } catch { ... }:
\* the try and the catch branch both print one line and go on
TestScraper ==
  /\ pc = "testScraper"
  /\ \E l \in Listings :
       /\ listing' = l
       /\ log' = Append(log, Call("listing", l.ok))
  /\ pc' = AfterTestScraper(apiKey)
  /\ outcome' = IF pc' = "done" THEN "resolved" ELSE outcome
  /\ inflight' = (inflight \ AwaitedAt(pc)) \cup AwaitedAt(pc')
  /\ UNCHANGED <<newsItems, idx, processedItems, emailMeta, result, sent, delivered, probe,
                 args, apiKey>>

\* try { const testSummary = await this.aiProcessor.createTweetLikeSummary({...})
\* } catch { ... }: either branch prints one line and testComponents() ends
TestAI ==
  /\ pc = "testAI"
  /\ \E reply \in SummaryReplies(TestItem) :
       log' = Append(log, Call("summary", reply.ok))
  /\ pc' = "done"
  /\ outcome' = "resolved"
  /\ inflight' = (inflight \ AwaitedAt(pc)) \cup AwaitedAt(pc')
  /\ UNCHANGED <<listing, newsItems, idx, processedItems, emailMeta, result, sent, delivered,
                 probe, args, apiKey>>

\* console.log of the usage text
ShowHelp ==
  /\ pc = "idle"
  /\ Dispatch(args) = "help"
  /\ pc' = "done"
  /\ UNCHANGED <<listing, newsItems, idx, processedItems, emailMeta, result, outcome, log,
                 sent, delivered, probe, args, apiKey, inflight>>

TestStep == TestEmail \/ TestScraper \/ TestAI

CliNext == StartRun \/ RunStep \/ StartTest \/ TestStep \/ ShowHelp

CliSpec == CliInit /\ [][CliNext]_vars

(***************************************************************************)
(* Direct calls of single methods, on arguments drawn from bounded sets    *)
(***************************************************************************)
\* "Tournament results 2024-07-28 final day"
TitleDated ==
  <<84,111,117,114,110,97,109,101,110,116,32,114,101,115,117,108,116,115,32,50,48,50,52,45,48,55,45,50,56,32,102,105,110,97,108,32,100,97,121>>

\* "Sumo sitemap and tournament guide"
TitleSitemap ==
  <<83,117,109,111,32,115,105,116,101,109,97,112,32,97,110,100,32,116,111,117,114,110,97,109,101,110,116,32,103,117,105,100,101>>

\* "Sumo Site Map and tournament guide"
TitleSiteMap ==
  <<83,117,109,111,32,83,105,116,101,32,77,97,112,32,97,110,100,32,116,111,117,114,110,97,109,101,110,116,32,103,117,105,100,101>>

\* "Yokozuna talks About promotion hopes"
TitleAbout ==
  <<89,111,107,111,122,117,110,97,32,116,97,108,107,115,32,65,98,111,117,116,32,112,114,111,109,111,116,105,111,110,32,104,111,112,101,115>>

\* "Sumo news today"
TitleFifteen ==
  <<83,117,109,111,32,110,101,119,115,32,116,111,100,97,121>>

\* "Sumo news today!"
TitleSixteen ==
  <<83,117,109,111,32,110,101,119,115,32,116,111,100,97,121,33>>

\* "Subscribe to the weekly newsletter"
TitleNewsletter ==
  <<83,117,98,115,99,114,105,98,101,32,116,111,32,116,104,101,32,119,101,101,107,108,121,32,110,101,119,115,108,101,116,116,101,114>>

\* "/En/guide"
HrefGuide ==
  <<47,69,110,47,103,117,105,100,101>>

\* "https://tickets.example.jp/nagoya"
HrefExternal ==
  <<104,116,116,112,115,58,47,47,116,105,99,107,101,116,115,46,101,120,97,109,112,108,101,46,106,112,47,110,97,103,111,121,97>>

\* "/En/tournament/tickets"
HrefTournamentTickets ==
  <<47,69,110,47,116,111,117,114,110,97,109,101,110,116,47,116,105,99,107,101,116,115>>

\* "Sumo "
SumoStem ==
  <<83,117,109,111,32>>

\* the longest title handed to createTweetLikeSummary
MaxProbeTitle == 283

\* the longest backend text handed to createTweetLikeSummary
MaxProbeReply == 284

\* the most anchors and news sections of a page handed to scrapeNews
MaxProbeAnchors == 2

MaxProbeSections == 1

ProbeTitleLens == {0, 1, MinTitleLen + 1, MaxTitleLen - 1} \cup ((FallbackKeep - 1)..MaxProbeTitle)

ProbeItem(n) ==
  [title |-> Repeat(120, n), url |-> BaseUrl, date |-> Today, rawText |-> Repeat(120, n),
   content |-> Undefined, summary |-> Undefined, processedAt |-> Undefined]

\* a settled backend call whose text has n code units between white space
TextReply(n) == [ok |-> TRUE, text |-> <<32>> \o Repeat(121, n) \o <<10>>]

\* a settled backend call without message content
EmptyReply == [ok |-> TRUE, text |-> Undefined]

\* a settled backend call whose text is n letters in alphabet order, with a
\* space inside, between white space
VariedReply(n) ==
  [ok |-> TRUE,
   text |-> <<32, 9>> \o [i \in 1..n |-> IF i = 2 THEN 32 ELSE 97 + (i % 26)] \o <<13, 10>>]

ProbeSummaryReplies ==
  {FailedReply, EmptyReply}
    \cup {TextReply(n) : n \in {0, 1} \cup ((SummaryKeep - 1)..MaxProbeReply)}
    \cup {VariedReply(n) : n \in (MaxSummaryLen - 1)..MaxProbeReply}

\* the prompt's "[compelling subject line under 50 characters]"
PromptSubjectLen == 50

\* a settled backend call whose SUBJECT: line carries n letters
SubjectReply(n) ==
  [ok |-> TRUE,
   text |-> SubjectLabel \o <<32>> \o Repeat(83, n) \o <<10>> \o IntroLabel \o <<32>> \o ReplyPlain]

ProbeDigestReplies ==
  {FailedReply, EmptyReply, TextReply(0), TextReply(1)}
    \cup {SubjectReply(n) :
            n \in ((PromptSubjectLen - 1)..(PromptSubjectLen + 1)) \cup {2 * PromptSubjectLen}}
    \cup {[ok |-> TRUE, text |-> t] :
            t \in {ReplySubjectIntro, ReplyNumbered, ReplySubjectOnly, ReplyIntroOnly,
                   ReplyTwoSubjects, ReplyPlain, ReplyMixed}}

AnchorPool ==
  {Anchor(TitleTerunofuji, HrefTerunofuji),
   Anchor(<<32>> \o TitleTerunofujiUpper \o <<10>>, HrefTerunofujiAlt),
   Anchor(TitleHome, HrefHome),
   Anchor(TitleOnosato, Undefined),
   Anchor(TitleDated, HrefDated),
   Anchor(TitleBadDate, HrefDated),
   BoutAnchor(1)}

SectionPool ==
  {Section(TitleOnosato, TitleOnosato, HrefOnosato),
   Section(<<>>, ToLowerCase(TitleTerunofuji), HrefTerunofuji),
   Section(TitleTickets, TitleTickets, HrefTickets)}

ProbePages ==
  {[anchors |-> a, sections |-> s] :
     a \in SeqsUpTo(AnchorPool, MaxProbeAnchors), s \in SeqsUpTo(SectionPool, MaxProbeSections)}

\* the most anchors of a page of boundary titles handed to scrapeNews
MaxEdgeAnchors == 1

\* a title of n code units that begins with a vocabulary term
LongTitle(n) == SumoStem \o Repeat(120, n - Len(SumoStem))

\* links whose titles sit on the filter's boundaries: navigational terms next
\* to vocabulary terms, and the lengths around the two limits
EdgeAnchorPool ==
  {Anchor(TitleSitemap, HrefGuide),
   Anchor(TitleSiteMap, HrefGuide),
   Anchor(TitleAbout, HrefGuide),
   Anchor(TitleFifteen, HrefGuide),
   Anchor(TitleSixteen, HrefGuide),
   Anchor(LongTitle(MaxTitleLen - 1), HrefGuide),
   Anchor(LongTitle(MaxTitleLen), HrefGuide),
   Anchor(TitleTickets, HrefTournamentTickets),
   Anchor(TitleNewsletter, HrefExternal)}

\* news sections without a vocabulary term: a link to another site, a link
\* into the site, a navigation label
EdgeSectionPool ==
  {Section(TitleNewsletter, TitleNewsletter, HrefExternal),
   Section(TitleTickets, TitleTickets, HrefTickets),
   Section(TitleHome, TitleHome, HrefHome),
   Section(TitleSixteen, TitleSixteen, HrefExternal)}

EdgePages ==
  {[anchors |-> a, sections |-> s] :
     a \in SeqsUpTo(EdgeAnchorPool, MaxEdgeAnchors),
     s \in SeqsUpTo(EdgeSectionPool, MaxProbeSections)}

ProbeListings ==
  {[ok |-> TRUE, page |-> p] : p \in ProbePages \cup EdgePages}
    \cup {[ok |-> FALSE, page |-> p] : p \in Pages}

\* the longest list handed to removeDuplicates
MaxProbeItems == 4

\* items of which three normalize to one title
DuplicateItemPool ==
  {NewsItem(TitleTerunofuji, HrefTerunofuji),
   NewsItem(TitleTerunofujiUpper, HrefTerunofujiAlt),
   NewsItem(<<32>> \o ToLowerCase(TitleTerunofuji) \o <<9>>, HrefGuide),
   NewsItem(TitleOnosato, HrefOnosato)}

ProbeDuplicateLists == SeqsUpTo(DuplicateItemPool, MaxProbeItems)

\* the lengths around the two limits of the length gate
FilterTitleLens ==
  {0} \cup ((MinTitleLen - 2)..(MinTitleLen + 2)) \cup ((MaxTitleLen - 2)..(MaxTitleLen + 2))

\* the three candidates of the end-to-end example
ExampleCandidates ==
  <<NewsItem(TitleTerunofuji, HrefTerunofuji), NewsItem(TitleHome, HrefHome),
    NewsItem(TitleOnosato, HrefOnosato)>>

ProbeFilterLists ==
  {<<ProbeItem(n)>> : n \in FilterTitleLens}
    \cup {<<ProbeItem(n), ProbeItem(MinTitleLen + 1), ProbeItem(m)>> :
             n \in FilterTitleLens, m \in {MinTitleLen, MaxTitleLen}}
    \cup {<<NewsItem(t, HrefGuide)>> :
             t \in {TitleSitemap, TitleSiteMap, TitleAbout, TitleFifteen, TitleSixteen}}
    \cup {<<>>, ExampleCandidates}

\* the lists of summaries handed to sendNewsDigest
ProbeSummaryLists ==
  {<<>>,
   <<Summarized(ProbeItem(MinTitleLen + 1), FallbackPrefix \o Repeat(120, MinTitleLen + 1), 0)>>,
   <<Summarized(NewsItem(TitleTerunofuji, HrefTerunofuji), TitleTerunofuji, 0),
     Summarized(NewsItem(TitleOnosato, HrefOnosato), TitleOnosato, 1)>>}

\* "Sumo thrills", "Big week in sumo!"
ParsedMeta ==
  [subject |-> <<83,117,109,111,32,116,104,114,105,108,108,115>>,
   intro |-> <<66,105,103,32,119,101,101,107,32,105,110,32,115,117,109,111,33>>]

ProbeArticleResponses ==
  {[ok |-> FALSE, text |-> Undefined]}
    \cup {[ok |-> TRUE, text |-> t] :
            t \in {<<>>, <<32, 10>>, ShortArticle, ArticleText(resolveUrl(HrefTerunofuji))}}

\* "http-archive.html"
HrefHttpNamed ==
  <<104,116,116,112,45,97,114,99,104,105,118,101,46,104,116,109,108>>

\* "#top"
HrefFragment ==
  <<35,116,111,112>>

\* "//cdn.example.jp/banzuke"
HrefProtocolRelative ==
  <<47,47,99,100,110,46,101,120,97,109,112,108,101,46,106,112,47,98,97,110,122,117,107,101>>

\* "İzmir sumo bout": 15 code units, the first is U+0130
TitleDottedCapital ==
  <<304,122,109,105,114,32,115,117,109,111,32,98,111,117,116>>

\* "i̇zmir sumo bout": its lower-case form, 16 code units
TitleDottedSmall ==
  <<105,775,122,109,105,114,32,115,117,109,111,32,98,111,117,116>>

\* two links whose titles differ in the case of their first letter only
PageDotted ==
  [anchors |-> <<Anchor(TitleDottedCapital, HrefGuide), Anchor(TitleDottedSmall, HrefGuide)>>,
   sections |-> <<>>]

\* the candidate lists of the probed pages
ProbeCandidateLists ==
  {Candidates(p) : p \in ProbePages \cup EdgePages \cup Pages \cup {PageDotted}}

\* hrefs of each kind: with a scheme, from the site root, relative to the
\* page, and relative ones that begin with the letters of the scheme test
ProbeHrefs ==
  {HrefOnosato, HrefExternal, HrefTerunofuji, HrefHome, HrefTerunofujiAlt, HrefContact,
   HrefFragment, HrefProtocolRelative, HrefHttpNamed, HttpPrefix, Slash, <<>>}

\* the title lengths handed to createFallbackSummary
FallbackTitleLens ==
  {1, MinTitleLen + 1, FallbackKeep, FallbackTitleLimit, FallbackTitleLimit + 1, MaxProbeTitle}

\* a title of n letters in alphabet order
VariedTitle(n) == [i \in 1..n |-> 65 + (i % 26)]

\* items that share a title and differ in url, content and date
FallbackItems(n) ==
  {[title |-> VariedTitle(n), url |-> u, date |-> d, rawText |-> VariedTitle(n),
    content |-> c, summary |-> Undefined, processedAt |-> Undefined] :
     u \in {BaseUrl, HrefExternal}, d \in {Today, <<2024, 7, 28>>},
     c \in {Undefined, ShortArticle}}

ProbeFallbackPairs ==
  UNION {FallbackItems(n) \X FallbackItems(m) :
           n \in {MinTitleLen + 1, FallbackTitleLimit + 1}, m \in FallbackTitleLens}

Probes ==
  {[fn |-> "createTweetLikeSummary", called |-> FALSE, item |-> ProbeItem(n), reply |-> r] :
     n \in ProbeTitleLens, r \in ProbeSummaryReplies}
    \cup {[fn |-> "createEmailDigest", called |-> FALSE, summaries |-> s, reply |-> r] :
            s \in {<<>>, <<ProbeItem(MinTitleLen + 1)>>}, r \in ProbeDigestReplies}
    \cup {[fn |-> "scrapeNews", called |-> FALSE, listing |-> l] : l \in ProbeListings}
    \cup {[fn |-> "scrapeArticleContent", called |-> FALSE, response |-> r] :
            r \in ProbeArticleResponses}
    \cup {[fn |-> "removeDuplicates", called |-> FALSE, newsItems |-> l] :
            l \in ProbeDuplicateLists}
    \cup {[fn |-> "filterRelevantNews", called |-> FALSE, newsItems |-> l] :
            l \in ProbeFilterLists}
    \cup {[fn |-> "sendNewsDigest", called |-> FALSE, summaries |-> l, emailMeta |-> m,
            transport |-> t] :
            l \in ProbeSummaryLists, m \in {DefaultMeta, ParsedMeta}, t \in Transports}
    \cup {[fn |-> "testConnection", called |-> FALSE, verify |-> v] : v \in Verifications}
    \cup {[fn |-> "filterAndDeduplicate", called |-> FALSE, newsItems |-> l] :
            l \in ProbeCandidateLists}
    \cup {[fn |-> "resolveUrl", called |-> FALSE, href |-> h] : h \in ProbeHrefs}
    \cup {[fn |-> "createFallbackSummary", called |-> FALSE, item |-> pair[2], other |-> pair[1]] :
            pair \in ProbeFallbackPairs}

\* the record of a call that has returned (or thrown)
Returned(p, r) == [p EXCEPT !.called = TRUE] @@ [out |-> r]

UnitInit == RunInit /\ NoArgs /\ probe \in Probes

CallCreateTweetLikeSummary ==
  /\ probe.fn = "createTweetLikeSummary" /\ ~probe.called
  /\ probe' = Returned(probe, createTweetLikeSummary(probe.item, probe.reply))
  /\ UNCHANGED runVars

CallCreateEmailDigest ==
  /\ probe.fn = "createEmailDigest" /\ ~probe.called
  /\ probe' = Returned(probe, createEmailDigest(probe.summaries, probe.reply))
  /\ UNCHANGED runVars

CallScrapeNews ==
  /\ probe.fn = "scrapeNews" /\ ~probe.called
  /\ probe' = Returned(probe, scrapeNews(probe.listing))
  /\ UNCHANGED runVars

CallScrapeArticleContent ==
  /\ probe.fn = "scrapeArticleContent" /\ ~probe.called
  /\ probe' = Returned(probe, scrapeArticleContent(probe.response))
  /\ UNCHANGED runVars

CallRemoveDuplicates ==
  /\ probe.fn = "removeDuplicates" /\ ~probe.called
  /\ probe' = Returned(probe, [threw |-> FALSE, value |-> removeDuplicates(probe.newsItems)])
  /\ UNCHANGED runVars

CallFilterRelevantNews ==
  /\ probe.fn = "filterRelevantNews" /\ ~probe.called
  /\ probe' = Returned(probe, [threw |-> FALSE, value |-> filterRelevantNews(probe.newsItems)])
  /\ UNCHANGED runVars

CallSendNewsDigest ==
  /\ probe.fn = "sendNewsDigest" /\ ~probe.called
  /\ probe' = Returned(probe, sendNewsDigest(probe.summaries, probe.emailMeta, probe.transport))
  /\ UNCHANGED runVars

CallTestConnection ==
  /\ probe.fn = "testConnection" /\ ~probe.called
  /\ probe' = Returned(probe, testConnection(probe.verify))
  /\ UNCHANGED runVars

\* createFallbackSummary called on two items, one after the other
CallCreateFallbackSummary ==
  /\ probe.fn = "createFallbackSummary" /\ ~probe.called
  /\ probe' = Returned(probe, [threw |-> FALSE,
                                value |-> <<createFallbackSummary(probe.item),
                                            createFallbackSummary(probe.other)>>])
  /\ UNCHANGED runVars

\* resolveUrl(href), and resolveUrl of what it returned
CallResolveUrl ==
  /\ probe.fn = "resolveUrl" /\ ~probe.called
  /\ probe' = Returned(probe, [threw |-> FALSE,
                                value |-> <<resolveUrl(probe.href),
                                            resolveUrl(resolveUrl(probe.href))>>])
  /\ UNCHANGED runVars

\* the two stages applied to one candidate list in the order of scrapeNews,
\* removeDuplicates then filterRelevantNews, and in the opposite order
CallFilterAndDeduplicate ==
  /\ probe.fn = "filterAndDeduplicate" /\ ~probe.called
  /\ probe' = Returned(probe, [threw |-> FALSE,
                                value |-> <<filterRelevantNews(removeDuplicates(probe.newsItems)),
                                            removeDuplicates(filterRelevantNews(probe.newsItems))>>])
  /\ UNCHANGED runVars

UnitNext ==
  CallCreateTweetLikeSummary \/ CallCreateEmailDigest \/ CallScrapeNews
    \/ CallScrapeArticleContent \/ CallRemoveDuplicates \/ CallFilterRelevantNews
    \/ CallSendNewsDigest \/ CallTestConnection \/ CallCreateFallbackSummary
    \/ CallResolveUrl \/ CallFilterAndDeduplicate

UnitSpec == UnitInit /\ [][UnitNext]_vars

(***************************************************************************)
(* Properties                                                              *)
(***************************************************************************)
\* the calls of one kind in the log of this run, in order
CallsOf(op) == SelectSeq(log, LAMBDA e : e.op = op)

\* a direct call of fn has returned
Called(fn) == probe.fn = fn /\ probe.called

\* the title as the specification normalizes it: lower case, trimmed
NormalizedTitle(item) == Trim(ToLowerCase(item.title))

\* processBatch has returned to run()
BatchReturned == pc \in {"compose", "send"} \/ (pc = "done" /\ Len(newsItems) >= 1)

\* C1: the summary createTweetLikeSummary returns has at most 280 characters,
\* for every backend outcome and for a title of any length.
SummaryAtMost280 ==
  Called("createTweetLikeSummary") => Len(probe.out.value) <= 280

\* C2: over any sequence of runs, no url of a digest that an earlier run
\* delivered is handed to the transport again.
DeliveredUrlNeverSentAgain ==
  \A k \in 1..Len(sent) : MailUrls(sent[k]) \cap delivered = {}

\* C3: no two items returned by scrapeNews have the same title after
\* lower-casing and trimming.
ScrapedTitlesDistinct ==
  Called("scrapeNews") =>
    \A i, j \in 1..Len(probe.out.value) :
      i # j => NormalizedTitle(probe.out.value[i]) # NormalizedTitle(probe.out.value[j])

\* C3 witness: a page with two candidates of one normalized title, of which
\* scrapeNews returned one together with another item.
ScrapedDuplicateDropped ==
  /\ Called("scrapeNews")
  /\ probe.listing.ok
  /\ \E i, j \in 1..Len(Candidates(probe.listing.page)) :
       /\ i < j
       /\ Candidates(probe.listing.page)[i].title # Candidates(probe.listing.page)[j].title
       /\ NormalizedTitle(Candidates(probe.listing.page)[i])
            = NormalizedTitle(Candidates(probe.listing.page)[j])
       /\ \E k \in 1..Len(probe.out.value) :
            probe.out.value[k].title = Candidates(probe.listing.page)[i].title
  /\ Len(probe.out.value) >= 2

\* C4: processedAt is set only after the delivery gateway reported success
\* for a digest containing the item.
ProcessedAtOnlyAfterDelivery ==
  /\ \A i \in 1..Len(newsItems) : newsItems[i].processedAt = Undefined
  /\ \A i \in 1..Len(processedItems) :
       processedItems[i].processedAt # Undefined => (result.defined /\ result.success)

\* C5: when scrapeNews returns no item, run ends as a normal outcome with the
\* listing request as its only call: no article fetch, no summary, no digest
\* composition, no mail, no processing state changed.
NoItemsEndsRunQuietly ==
  (pc \notin {"idle", "scrape"} /\ Len(newsItems) = 0) =>
    /\ pc = "done"
    /\ outcome = "resolved"
    /\ Len(log) = 1 /\ log[1].op = "listing"
    /\ sent = <<>>
    /\ processedItems = <<>>
    /\ emailMeta = NoMeta
    /\ result = NoResult
    /\ delivered = {}

\* C5 witness: a run over a page listing only navigation links has ended.
NoItemsRunEnded ==
  /\ pc = "done"
  /\ listing.ok
  /\ Len(listing.page.anchors) >= 1
  /\ Len(newsItems) = 0

\* every backend call of this run failed
BackendDown == \A k \in 1..Len(log) : log[k].op \in {"summary", "digest"} => ~log[k].ok

\* C6: when every backend call fails and scrapeNews returned n >= 1 items, the
\* transport is handed one digest of exactly n items, each with the summary
\* made of the prefix and its title, with the default subject and intro.
BackendDownStillDelivers ==
  (pc = "done" /\ Len(newsItems) >= 1 /\ BackendDown) =>
    /\ Len(CallsOf("summary")) = Len(newsItems)
    /\ Len(CallsOf("digest")) = 1
    /\ Len(sent) = 1
    /\ Len(sent[1].items) = Len(newsItems)
    /\ \A i \in 1..Len(newsItems) :
         /\ sent[1].items[i].title = newsItems[i].title
         /\ sent[1].items[i].summary = FallbackPrefix \o newsItems[i].title
    /\ sent[1].subject = DefaultSubject
    /\ sent[1].intro = DefaultIntro

\* C6 witness: a run of several items with the backend down has handed its
\* digest to the transport.
BackendDownRunDelivered ==
  /\ pc = "done"
  /\ Len(newsItems) >= 2
  /\ BackendDown
  /\ Len(sent) = 1
  /\ result.success

\* C7: whatever fails, run terminates and its promise resolves; it never
\* rejects.
RunAlwaysResolves ==
  /\ [](outcome # "rejected")
  /\ <>(pc = "done" /\ outcome = "resolved")

\* C7 witness: a run in which every article fetch, every backend call and the
\* transport failed has ended.
EverythingFailedRunEnded ==
  /\ pc = "done"
  /\ Len(newsItems) >= 2
  /\ Len(log) > 2
  /\ \A k \in 2..Len(log) : log[k].op # "pause" => ~log[k].ok
  /\ ~result.success
  /\ outcome = "resolved"

\* C8: a failed listing request makes scrapeNews return the empty list and a
\* failed article request makes scrapeArticleContent return the empty string;
\* neither throws.
FailedFetchGivesEmpty ==
  /\ Called("scrapeNews") =>
       /\ ~probe.out.threw
       /\ ~probe.listing.ok => probe.out.value = <<>>
  /\ Called("scrapeArticleContent") =>
       /\ ~probe.out.threw
       /\ ~probe.response.ok => probe.out.value = <<>>

\* C8 witness: scrapeNews has returned after the request for a page with
\* relevant links failed.
FailedListingReturned ==
  /\ Called("scrapeNews")
  /\ ~probe.listing.ok
  /\ Len(Candidates(probe.listing.page)) >= 2
  /\ probe.out.value = <<>>

\* the summary the primary path makes of a backend text
CutTo280(t) == IF Len(t) <= 280 THEN t ELSE SubSeq(t, 1, 277) \o <<46, 46, 46>>

ExpectedPrimary(text) == CutTo280(Trim(text))

\* C9: processBatch returns one summarized item per input item, in input order
\* with the same title and url; an item whose backend call failed carries the
\* fallback summary, the others the backend's; no failure leaves processBatch.
BatchKeepsEveryItem ==
  /\ Len(processedItems) <= Len(newsItems)
  /\ Len(processedItems) = Len(CallsOf("summary"))
  /\ BatchReturned => Len(processedItems) = Len(newsItems)
  /\ \A i \in 1..Len(processedItems) :
       /\ processedItems[i].title = newsItems[i].title
       /\ processedItems[i].url = newsItems[i].url
       /\ processedItems[i].summary =
            IF CallsOf("summary")[i].ok THEN ExpectedPrimary(SummaryText(newsItems[i]))
            ELSE FallbackPrefix \o newsItems[i].title
  /\ outcome # "rejected"

\* C9 witness: processBatch has returned for a list in which some calls
\* failed and others did not.
BatchWithSomeFailures ==
  /\ BatchReturned
  /\ Len(newsItems) >= 3
  /\ \E i, j \in 1..Len(newsItems) :
       i < j /\ ~CallsOf("summary")[i].ok /\ CallsOf("summary")[j].ok

\* the lines of a backend text, as split after trimming
ReplyLines(text) == SplitLines(Trim(text))

\* no line of the text begins with one of the two labels
NoLabelLine(text) ==
  \A k \in 1..Len(ReplyLines(text)) :
    /\ ~StartsWith(ReplyLines(text)[k], SubjectLabel)
    /\ ~StartsWith(ReplyLines(text)[k], IntroLabel)

\* C10: createEmailDigest never fails and returns a subject and an intro; when
\* the backend call fails or no line of the response carries a label, they are
\* the default subject and the default intro.
DigestNeverFails ==
  Called("createEmailDigest") =>
    /\ ~probe.out.threw
    /\ probe.out.value.subject # Undefined
    /\ probe.out.value.intro # Undefined
    /\ (~probe.reply.ok \/ probe.reply.text = Undefined) => probe.out.value = DefaultMeta
    /\ (probe.reply.ok /\ probe.reply.text # Undefined /\ NoLabelLine(probe.reply.text)) =>
         probe.out.value = DefaultMeta

\* C10 witness: createEmailDigest has returned the defaults for a backend text
\* of several lines, none of which begins with a label.
DigestParseMissReturned ==
  /\ Called("createEmailDigest")
  /\ probe.reply.ok
  /\ probe.reply.text # Undefined
  /\ Len(ReplyLines(probe.reply.text)) >= 2
  /\ NoLabelLine(probe.reply.text)
  /\ probe.out.value = DefaultMeta

\* C11: for every list of summaries, the empty list included, and every
\* transport outcome, sendNewsDigest returns an outcome object, success with
\* the messageId when the transport accepted the mail and failure with the
\* error otherwise; testConnection returns a boolean and never throws.
SendAlwaysReturnsOutcome ==
  /\ Called("sendNewsDigest") =>
       /\ ~probe.out.threw
       /\ probe.out.value.defined
       /\ probe.out.value.success = probe.transport.ok
       /\ probe.out.value.success => probe.out.value.messageId = probe.transport.messageId
       /\ ~probe.out.value.success => probe.out.value.error = probe.transport.message
  /\ Called("testConnection") =>
       /\ ~probe.out.threw
       /\ probe.out.value \in BOOLEAN

\* the operations of the calls and pauses in the log, in order
LogOps == [k \in 1..Len(log) |-> log[k].op]

\* a list is the beginning of another
IsPrefix(s, t) == Len(s) <= Len(t) /\ SubSeq(t, 1, Len(s)) = s

\* C12: a program started with --dry-run scrapes, summarizes and composes but
\* never hands a mail to the transport and never marks an item processed.
DryRunNeverDelivers ==
  IncludesArg(args, "--dry-run") =>
    /\ sent = <<>>
    /\ \A k \in 1..Len(log) : log[k].op # "send"
    /\ \A i \in 1..Len(processedItems) : processedItems[i].processedAt = Undefined

\* the calls testComponents() makes, in order
TestCalls(key) == <<"verify", "listing">> \o (IF key \notin {Undefined, <<>>} THEN <<"summary">> ELSE <<>>)

\* C13: a program started with --test probes the mail connection, runs the
\* scraper and, only when an API key is configured, makes one summarization
\* call; it never calls sendNewsDigest or transporter.sendMail, whatever the
\* probes return.
TestModeNeverSends ==
  IncludesArg(args, "--test") =>
    /\ sent = <<>>
    /\ result = NoResult
    /\ pc \notin {"scrape", "fetch", "fetchPause", "summarize", "summarizePause", "compose", "send"}
    /\ IsPrefix(LogOps, TestCalls(apiKey))
    /\ pc = "done" => LogOps = TestCalls(apiKey)

\* C13 witness: testComponents() has ended after the connection probe and the
\* listing request failed, with a key configured and the summarization made.
TestModeEndedAfterFailures ==
  /\ IncludesArg(args, "--test")
  /\ Len(args) >= 2
  /\ pc = "done"
  /\ Len(log) = 3
  /\ ~log[1].ok /\ ~log[2].ok
  /\ log[3].op = "summary"

\* the items scrapeNews returned to a direct call
Scraped == probe.out.value

\* the title contains one of the terms, compared in lower case
TitleHasTerm(item, terms) == \E k \in 1..Len(terms) : Includes(ToLowerCase(item.title), terms[k])

\* the navigational terms as the specification lists them
NavigationalTerms ==
  << <<104,111,109,101>>  (* home *),
     <<99,111,110,116,97,99,116>>  (* contact *),
     <<97,98,111,117,116>>  (* about *),
     <<112,114,105,118,97,99,121>>  (* privacy *),
     <<116,101,114,109,115>>  (* terms *),
     <<115,105,116,101,109,97,112>>  (* sitemap *),
     <<109,101,110,117>>  (* menu *),
     <<101,110,103,108,105,115,104>>  (* english *),
     <<106,97,112,97,110,101,115,101>>  (* japanese *) >>

\* the navigational terms with the site map written as two words
NavigationalTermsSpaced ==
  << <<104,111,109,101>>  (* home *),
     <<99,111,110,116,97,99,116>>  (* contact *),
     <<97,98,111,117,116>>  (* about *),
     <<112,114,105,118,97,99,121>>  (* privacy *),
     <<116,101,114,109,115>>  (* terms *),
     <<115,105,116,101,32,109,97,112>>  (* site map *),
     <<109,101,110,117>>  (* menu *),
     <<101,110,103,108,105,115,104>>  (* english *),
     <<106,97,112,97,110,101,115,101>>  (* japanese *) >>

\* the fixed vocabulary
Vocabulary ==
  << <<116,111,117,114,110,97,109,101,110,116>>  (* tournament *),
     <<99,104,97,109,112,105,111,110>>  (* champion *),
     <<112,114,111,109,111,116,105,111,110>>  (* promotion *),
     <<115,117,109,111>>  (* sumo *),
     <<119,114,101,115,116,108,101,114>>  (* wrestler *),
     <<98,111,117,116>>  (* bout *),
     <<119,105,110,110,101,114>>  (* winner *),
     <<114,101,115,117,108,116>>  (* result *),
     <<114,97,110,107,105,110,103>>  (* ranking *),
     <<99,101,114,101,109,111,110,121>>  (* ceremony *),
     <<121,111,107,111,122,117,110,97>>  (* yokozuna *),
     <<111,122,101,107,105>>  (* ozeki *),
     <<115,101,107,105,119,97,107,101>>  (* sekiwake *),
     <<107,111,109,117,115,117,98,105>>  (* komusubi *),
     <<109,97,101,103,97,115,104,105,114,97>>  (* maegashira *),
     <<106,117,114,121,111>>  (* juryo *) >>

\* a vocabulary term in the title or in the url, compared in lower case
HasVocabularyTerm(item) ==
  \E k \in 1..Len(Vocabulary) :
    \/ Includes(ToLowerCase(item.title), Vocabulary[k])
    \/ Includes(ToLowerCase(item.url), Vocabulary[k])

\* C14 as stated, with the site map written as one word: no item returned by
\* scrapeNews has a title containing, case-insensitively, home, contact,
\* about, privacy, terms, sitemap, menu, english or japanese.
NoNavigationalTitle ==
  Called("scrapeNews") =>
    \A k \in 1..Len(Scraped) : ~TitleHasTerm(Scraped[k], NavigationalTerms)

\* C14: no item returned by scrapeNews has a title containing,
\* case-insensitively, home, contact, about, privacy, terms, "site map" (two
\* words), menu, english or japanese, even when it also has a vocabulary term.
NoNavigationalTitleSpaced ==
  Called("scrapeNews") =>
    \A k \in 1..Len(Scraped) : ~TitleHasTerm(Scraped[k], NavigationalTermsSpaced)

\* C14 witness: scrapeNews returned an item and left out a candidate whose
\* title has a vocabulary term next to a navigational term written with a
\* capital letter.
NavigationalCandidateDropped ==
  /\ Called("scrapeNews")
  /\ probe.listing.ok
  /\ Len(Scraped) >= 1
  /\ \E i \in 1..Len(Candidates(probe.listing.page)) :
       /\ TitleHasTerm(Candidates(probe.listing.page)[i], NavigationalTermsSpaced)
       /\ ~SomePattern(NavigationalTermsSpaced, Candidates(probe.listing.page)[i].title)
       /\ HasVocabularyTerm(Candidates(probe.listing.page)[i])
       /\ Len(Candidates(probe.listing.page)[i].title) \in 16..149

\* C15: every item returned by scrapeNews has a vocabulary term in
\* its title or in its url, whether the hyperlink scan or the news-section
\* scan found it.
EveryItemHasVocabularyTerm ==
  Called("scrapeNews") => \A k \in 1..Len(Scraped) : HasVocabularyTerm(Scraped[k])

\* the filter kept this item of its input
Kept(item) == \E j \in 1..Len(probe.out.value) : probe.out.value[j] = item

\* C16 as stated, with the lower limit included: the length gate keeps a
\* title free of exclusion terms if and only if 15 <= L < 150, and every
\* title scrapeNews returns has a length in that range.
LengthGateFrom15 ==
  /\ Called("filterRelevantNews") =>
       \A i \in 1..Len(probe.newsItems) :
         ~TitleHasTerm(probe.newsItems[i], NavigationalTermsSpaced) =>
           (Kept(probe.newsItems[i]) <=>
              (15 <= Len(probe.newsItems[i].title) /\ Len(probe.newsItems[i].title) < 150))
  /\ Called("scrapeNews") =>
       \A k \in 1..Len(Scraped) : Len(Scraped[k].title) >= 15 /\ Len(Scraped[k].title) < 150

\* C16: the length gate keeps a title free of exclusion terms if and only if
\* 15 < L < 150: a title of exactly 15 or of exactly 150 characters is
\* rejected, one of 16 or of 149 is accepted, and every title scrapeNews
\* returns has 16 to 149 characters.
LengthGateAbove15 ==
  /\ Called("filterRelevantNews") =>
       \A i \in 1..Len(probe.newsItems) :
         ~TitleHasTerm(probe.newsItems[i], NavigationalTermsSpaced) =>
           (Kept(probe.newsItems[i]) <=>
              (15 < Len(probe.newsItems[i].title) /\ Len(probe.newsItems[i].title) < 150))
  /\ Called("scrapeNews") =>
       \A k \in 1..Len(Scraped) : Len(Scraped[k].title) > 15 /\ Len(Scraped[k].title) < 150

\* C16 witness: the filter returned only the title of 16 characters of a list
\* whose other titles have 15 and 150.
BoundaryTitlesFiltered ==
  /\ Called("filterRelevantNews")
  /\ Len(probe.newsItems) = 3
  /\ Len(probe.newsItems[1].title) = 15
  /\ Len(probe.newsItems[2].title) = 16
  /\ Len(probe.newsItems[3].title) = 150
  /\ probe.out.value = <<probe.newsItems[2]>>

\* the positions of a list that hold the first item of their normalized title
FirstPositions(items) ==
  {i \in 1..Len(items) :
     \A j \in 1..(i - 1) : NormalizedTitle(items[j]) # NormalizedTitle(items[i])}

\* how many positions of S are at or before i
RankIn(S, i) == Cardinality({j \in S : j <= i})

\* out is the subsequence of items at the positions S
IsSubsequenceAt(out, items, S) ==
  /\ Len(out) = Cardinality(S)
  /\ \A i \in S : out[RankIn(S, i)] = items[i]

\* C17: removeDuplicates returns the subsequence of its input made of the
\* first occurrence of each lower-cased trimmed title, in input order; in
\* scrapeNews a hyperlink-scan candidate so wins over a news-section candidate
\* of the same normalized title.
FirstOccurrencesKept ==
  /\ Called("removeDuplicates") =>
       IsSubsequenceAt(probe.out.value, probe.newsItems, FirstPositions(probe.newsItems))
  /\ (Called("scrapeNews") /\ probe.listing.ok) =>
       \A k \in 1..Len(Scraped) :
         \E i \in FirstPositions(Candidates(probe.listing.page)) :
           /\ Candidates(probe.listing.page)[i] = Scraped[k]
           /\ \A l \in 1..(k - 1) :
                \E j \in FirstPositions(Candidates(probe.listing.page)) :
                  j < i /\ Candidates(probe.listing.page)[j] = Scraped[l]

\* C17 witness: removeDuplicates returned the first and the second of four
\* items, of which the third and the fourth repeat the first one's title in
\* other spellings.
LaterSpellingsDropped ==
  /\ Called("removeDuplicates")
  /\ Len(probe.newsItems) = 4
  /\ NormalizedTitle(probe.newsItems[1]) # NormalizedTitle(probe.newsItems[2])
  /\ NormalizedTitle(probe.newsItems[3]) = NormalizedTitle(probe.newsItems[1])
  /\ NormalizedTitle(probe.newsItems[4]) = NormalizedTitle(probe.newsItems[1])
  /\ Cardinality({probe.newsItems[1], probe.newsItems[3], probe.newsItems[4]}) = 3
  /\ probe.out.value = <<probe.newsItems[1], probe.newsItems[2]>>

\* the titles of a list of items, in order
Titles(items) == [i \in 1..Len(items) |-> items[i].title]

\* the summaries of a list of items, in order
Summaries(items) == [i \in 1..Len(items) |-> items[i].summary]

\* "Terunofuji wins July tournament 13-2", "Home",
\* "Onosato promoted to sekiwake after 11-4 record"
ExampleTitles ==
  << <<84,101,114,117,110,111,102,117,106,105,32,119,105,110,115,32,74,117,108,121,32,116,111,117,114,110,97,109,101,110,116,32,49,51,45,50>>,
     <<72,111,109,101>>,
     <<79,110,111,115,97,116,111,32,112,114,111,109,111,116,101,100,32,116,111,32,115,101,107,105,119,97,107,101,32,97,102,116,101,114,32,49,49,45,52,32,114,101,99,111,114,100>> >>

\* the two expected summaries: the uniform, a space, the title
ExampleSummaries ==
  << <<55358,56651,32,84,101,114,117,110,111,102,117,106,105,32,119,105,110,115,32,74,117,108,121,32,116,111,117,114,110,97,109,101,110,116,32,49,51,45,50>>,
     <<55358,56651,32,79,110,111,115,97,116,111,32,112,114,111,109,111,116,101,100,32,116,111,32,115,101,107,105,119,97,107,101,32,97,102,116,101,114,32,49,49,45,52,32,114,101,99,111,114,100>> >>

\* the listing of this run holds the three example titles, as links or as
\* news sections
ExampleListing == listing.ok /\ listing.page \in {PageExample, PageExampleSections}

\* C18: of the candidate titles 'Terunofuji wins July tournament 13-2', 'Home'
\* and 'Onosato promoted to sekiwake after 11-4 record' the filter keeps the
\* first and the third; with the backend failing the summaries are the
\* uniform, a space and the title, the digest has the default subject and
\* intro, and the transport is handed exactly these 2 items in that order.
ExampleRunDeliversTwo ==
  /\ (ExampleListing /\ listing.page = PageExampleSections) =>
       Titles(Candidates(listing.page)) = ExampleTitles
  /\ (ExampleListing /\ pc \notin {"idle", "scrape"}) =>
       Titles(newsItems) = <<ExampleTitles[1], ExampleTitles[3]>>
  /\ (ExampleListing /\ pc = "done" /\ BackendDown) =>
       /\ Len(sent) = 1
       /\ Titles(sent[1].items) = <<ExampleTitles[1], ExampleTitles[3]>>
       /\ Summaries(sent[1].items) = ExampleSummaries
       /\ sent[1].subject = <<83,117,109,111,32,87,114,101,115,116,108,105,110,103,32,78,101,119,115,32,85,112,100,97,116,101>>
       /\ sent[1].intro = <<72,101,114,101,32,97,114,101,32,116,104,101,32,108,97,116,101,115,116,32,117,112,100,97,116,101,115,32,102,114,111,109,32,116,104,101,32,119,111,114,108,100,32,111,102,32,115,117,109,111,32,119,114,101,115,116,108,105,110,103,33>>

\* C18 witness: the run over the three titles as news sections, where 'Home'
\* is a candidate, has ended with the backend down and the mail accepted.
ExampleRunEnded ==
  /\ pc = "done"
  /\ listing.ok
  /\ listing.page = PageExampleSections
  /\ BackendDown
  /\ Len(sent) = 1
  /\ result.success

\* the calls into the generative backend
BackendOps == {"summary", "digest"}

\* a pause lies between any two log entries whose operations are in ops
PauseBetween(ops) ==
  \A i, j \in 1..Len(log) :
    (i < j /\ log[i].op \in ops /\ log[j].op \in ops) =>
      \E k \in (i + 1)..(j - 1) : log[k].op = "pause"

\* no call of ops is in flight right after a call of ops settled
NotBackToBack(ops) ==
  (inflight \cap ops # {} /\ log # <<>>) => log[Len(log)].op \notin ops

\* C19: per-item external calls are sequential and throttled: a pause
\* completes between any two consecutive article fetches and between any two
\* consecutive backend calls (summaries, and the last summary and the digest
\* composition), and no two calls are in flight at the same time, also when a
\* call fails.
CallsSequentialAndThrottled ==
  /\ Cardinality(inflight) <= 1
  /\ PauseBetween({"article"})
  /\ PauseBetween(BackendOps)
  /\ NotBackToBack({"article"})
  /\ NotBackToBack(BackendOps)

\* C19 witness: a run of three or more items has ended in which an article
\* fetch and a summarization failed and further calls followed them.
ThrottledRunWithFailures ==
  /\ pc = "done"
  /\ Len(newsItems) >= 3
  /\ Len(CallsOf("article")) = Len(newsItems)
  /\ ~CallsOf("article")[1].ok
  /\ Len(CallsOf("summary")) = Len(newsItems)
  /\ ~CallsOf("summary")[2].ok
  /\ Len(CallsOf("digest")) = 1
  /\ ~CallsOf("digest")[1].ok
  /\ Len(CallsOf("pause")) = 2 * Len(newsItems)

\* the stages of a run over n items, as the calls and pauses they make
ExpectedStages(n) ==
  [k \in 1..(4 * n + 3) |->
     IF k = 1 THEN "listing"
     ELSE IF k <= 2 * n + 1 THEN (IF k % 2 = 0 THEN "article" ELSE "pause")
     ELSE IF k <= 4 * n + 1 THEN (IF k % 2 = 0 THEN "summary" ELSE "pause")
     ELSE IF k = 4 * n + 2 THEN "digest"
     ELSE "send"]

\* C20: in every run in which scrapeNews returns at least one item the stages
\* execute in the same order: scrape, the article fetch of every item, the
\* summarization of every item, digest composition, delivery, whichever
\* article fetches, backend calls or delivery attempt fail; no stage is
\* skipped or reordered.
StagesAlwaysInOrder ==
  (pc \notin {"idle", "scrape"} /\ Len(newsItems) >= 1) =>
    /\ IsPrefix(LogOps, ExpectedStages(Len(newsItems)))
    /\ pc = "done" => LogOps = ExpectedStages(Len(newsItems))
    /\ pc = "done" => (Len(sent) = 1 /\ Len(sent[1].items) = Len(newsItems))

\* C20 witness: a run of several items has ended in which the last article
\* fetch, the first summarization and the delivery failed and the digest
\* composition did not.
StagesRunDespiteFailures ==
  /\ pc = "done"
  /\ Len(newsItems) >= 2
  /\ Len(log) = 4 * Len(newsItems) + 3
  /\ ~CallsOf("article")[Len(newsItems)].ok
  /\ ~CallsOf("summary")[1].ok
  /\ CallsOf("digest")[1].ok
  /\ result.defined /\ ~result.success

\* how many calls of one kind this run has made
Count(op) == Len(CallsOf(op))

\* C21: no external call is retried: a run over n >= 1 scraped items makes
\* exactly one listing fetch, exactly one article fetch and exactly one
\* summarization call per item, exactly one compose call and at most one
\* transport send; after a failed send the run ends without a second send.
NoCallRetried ==
  /\ Count("listing") <= 1
  /\ pc \notin {"idle", "scrape"} => Count("listing") = 1
  /\ pc = "fetch" => Count("article") = idx - 1
  /\ pc = "fetchPause" => Count("article") = idx
  /\ pc \in {"summarize", "summarizePause", "compose", "send"} =>
       Count("article") = Len(newsItems)
  /\ pc = "summarize" => Count("summary") = idx - 1
  /\ pc = "summarizePause" => Count("summary") = idx
  /\ pc \in {"compose", "send"} => Count("summary") = Len(newsItems)
  /\ pc \in {"fetch", "fetchPause"} => Count("summary") = 0
  /\ Count("digest") = (IF pc = "send" \/ (pc = "done" /\ Len(newsItems) >= 1) THEN 1 ELSE 0)
  /\ Count("send") <= 1
  /\ Len(sent) <= 1
  /\ (pc = "done" /\ Len(newsItems) >= 1) =>
       /\ Count("article") = Len(newsItems)
       /\ Count("summary") = Len(newsItems)
  /\ (result.defined /\ ~result.success) => (pc = "done" /\ Count("send") = 1)

\* C21 witness: a run of several items has ended after an article fetch, a
\* summarization, the composition and the send each failed once.
FailedCallsNotRetried ==
  /\ pc = "done"
  /\ Len(newsItems) >= 2
  /\ ~CallsOf("article")[2].ok
  /\ ~CallsOf("summary")[1].ok
  /\ ~CallsOf("digest")[1].ok
  /\ result.defined /\ ~result.success
  /\ Count("send") = 1

\* a direct call of createTweetLikeSummary whose backend call returned a text
PrimaryPath ==
  Called("createTweetLikeSummary") /\ probe.reply.ok /\ probe.reply.text # Undefined

\* C22: on the primary path a backend text whose trimmed length is at most
\* 280 is returned (trimmed) unchanged, and a longer one is replaced by its
\* first 277 characters followed by '...', exactly 280 characters in all.
PrimaryCutAt277 ==
  PrimaryPath =>
    /\ Len(Trim(probe.reply.text)) <= 280 => probe.out.value = Trim(probe.reply.text)
    /\ Len(Trim(probe.reply.text)) > 280 =>
         /\ Len(probe.out.value) = 280
         /\ \A i \in 1..277 : probe.out.value[i] = Trim(probe.reply.text)[i]
         /\ \A i \in 278..280 : probe.out.value[i] = 46

\* C22 witness: a text of distinct neighbouring letters, longer than 280 after
\* trimming, came back cut.
LongVariedTextCut ==
  /\ PrimaryPath
  /\ Len(Trim(probe.reply.text)) > 280
  /\ Trim(probe.reply.text)[277] # Trim(probe.reply.text)[278]
  /\ Len(probe.reply.text) > Len(Trim(probe.reply.text))
  /\ Len(probe.out.value) = 280

\* C23: the fallback summary depends on the title alone: two items with the
\* same title and different url, content or date get the same fallback
\* summary, which is the uniform, a space and the whole title when the title
\* has at most 280 characters, and the title cut to its first 275 characters
\* followed by '...' (after the same prefix) when the title is longer.
FallbackFromTitleAlone ==
  Called("createFallbackSummary") =>
    /\ probe.item.title = probe.other.title => probe.out.value[1] = probe.out.value[2]
    /\ Len(probe.item.title) <= 280 =>
         probe.out.value[1] = <<55358, 56651, 32>> \o probe.item.title
    /\ Len(probe.item.title) > 280 =>
         probe.out.value[1] =
           <<55358, 56651, 32>> \o SubSeq(probe.item.title, 1, 275) \o <<46, 46, 46>>

\* C23 witness: two items with one title longer than the bound and with
\* different url, content and date got one summary.
SameTitleSameFallback ==
  /\ Called("createFallbackSummary")
  /\ probe.item.title = probe.other.title
  /\ Len(probe.item.title) > 280
  /\ probe.item.url # probe.other.url
  /\ probe.item.content # probe.other.content
  /\ probe.item.date # probe.other.date
  /\ probe.out.value[1] = probe.out.value[2]

\* the day a matched date text denotes
MatchedDay(mt) == <<ToNumber(mt.y), ToNumber(mt.m), ToNumber(mt.d)>>

\* C24: date derivation never fails: every returned item has the date of
\* the matched YYYY-MM-DD-like or DD-MM-YYYY-like pattern of its title when
\* there is one and the current date otherwise, and no title text, not even
\* one whose date-like digits form no real date, raises an error or makes
\* the page's other candidates be lost.
DateDerivationNeverFails ==
  (Called("scrapeNews") /\ probe.listing.ok) =>
    /\ Scraped =
         SliceTo(filterRelevantNews(removeDuplicates(Candidates(probe.listing.page))), 5)
    /\ \A k \in 1..Len(Scraped) :
         Scraped[k].date =
           (IF DateMatch(Scraped[k].title).found THEN MatchedDay(DateMatch(Scraped[k].title))
            ELSE Today)

\* "http://", "https://"
IsAbsoluteUrl(u) ==
  \/ StartsWith(u, <<104,116,116,112,58,47,47>>)
  \/ StartsWith(u, <<104,116,116,112,115,58,47,47>>)

\* the three cases of the resolution, as stated
ResolvedAsStated(href, url) ==
  url = (IF StartsWith(href, <<104,116,116,112>>) THEN href
         ELSE IF StartsWith(href, <<47>>)
           THEN <<104,116,116,112,115,58,47,47,119,119,119,46,115,117,109,111,46,111,114,46,106,112>> \o href
         ELSE <<104,116,116,112,115,58,47,47,119,119,119,46,115,117,109,111,46,111,114,46,106,112,47,69,110,47>> \o href)

\* C25: for every href resolveUrl returns an absolute URL: the href unchanged
\* when it starts with 'http', 'https://www.sumo.or.jp' plus the href when it
\* starts with '/', 'https://www.sumo.or.jp/En/' plus the href otherwise; and
\* resolving an already resolved URL returns it unchanged.
ResolveUrlAbsoluteIdempotent ==
  Called("resolveUrl") =>
    /\ IsAbsoluteUrl(probe.out.value[1])
    /\ ResolvedAsStated(probe.href, probe.out.value[1])
    /\ probe.out.value[2] = probe.out.value[1]

\* the article loop of run() has finished
FetchStageDone ==
  pc \in {"summarize", "summarizePause", "compose", "send"}
    \/ (pc = "done" /\ Len(newsItems) >= 1)

\* the page at url holds nothing but white space
PageYieldsNoText(url) == \A k \in 1..Len(ArticleText(url)) : IsSpace(ArticleText(url)[k])

\* C26: after the article-fetch stage every item's content has at most 1000
\* characters and is the empty string exactly for the items whose article
\* fetch failed or whose page yielded no text; an item whose article fetch
\* failed stays in the digest.
ContentBoundedAndKept ==
  FetchStageDone =>
    /\ \A i \in 1..Len(newsItems) :
         /\ newsItems[i].content # Undefined
         /\ Len(newsItems[i].content) <= 1000
         /\ (newsItems[i].content = <<>>) <=>
              (~CallsOf("article")[i].ok \/ PageYieldsNoText(newsItems[i].url))
    /\ pc = "done" =>
         /\ Len(sent) = 1
         /\ Len(sent[1].items) = Len(newsItems)
         /\ \A i \in 1..Len(newsItems) :
              /\ sent[1].items[i].url = newsItems[i].url
              /\ sent[1].items[i].content = newsItems[i].content

\* C26 witness: a digest was handed to the transport whose items are one with
\* a failed article fetch, one with a page of more than 1000 characters and
\* one with a blank page.
DigestKeepsFailedFetch ==
  /\ pc = "done"
  /\ Len(sent) = 1
  /\ \E i, j, k \in 1..Len(newsItems) :
       /\ ~CallsOf("article")[i].ok /\ sent[1].items[i].content = <<>>
       /\ CallsOf("article")[j].ok /\ Len(newsItems[j].content) = 1000
       /\ CallsOf("article")[k].ok /\ PageYieldsNoText(newsItems[k].url)

\* C27: for every backend response, the subject createEmailDigest returns, and
\* so the subject of every digest handed to the transport, has at most 50
\* characters.
SubjectAtMost50 ==
  Called("createEmailDigest") => Len(probe.out.value.subject) <= 50

\* the lines of a backend text that begin with a label
LabelLines(text, label) ==
  {k \in 1..Len(ReplyLines(text)) : StartsWith(ReplyLines(text)[k], label)}

\* what follows the label on a line, trimmed
ValueAfter(line, label) == Trim(SubSeq(line, Len(label) + 1, Len(line)))

\* the field a backend text gives: the value of the last line that begins
\* with the label, the default when there is none
FieldOf(text, label, default) ==
  IF LabelLines(text, label) = {} THEN default
  ELSE ValueAfter(ReplyLines(text)[Greatest(LabelLines(text, label))], label)

\* a direct call of createEmailDigest whose backend call returned a text
DigestParsed ==
  Called("createEmailDigest") /\ probe.reply.ok /\ probe.reply.text # Undefined

\* C28: createEmailDigest decides the two fields independently: the subject
\* comes from the backend exactly when some response line begins with
\* 'SUBJECT:' and the intro exactly when some line begins with 'INTRO:' (a
\* label further inside a line, as in '1. SUBJECT: x', is not recognized); a
\* field without such a line keeps its default, and of several lines with one
\* label the last wins.
FieldsDecidedIndependently ==
  DigestParsed =>
    /\ probe.out.value.subject =
         FieldOf(probe.reply.text, <<83,85,66,74,69,67,84,58>>,
                 <<83,117,109,111,32,87,114,101,115,116,108,105,110,103,32,78,101,119,115,32,85,112,100,97,116,101>>)
    /\ probe.out.value.intro =
         FieldOf(probe.reply.text, <<73,78,84,82,79,58>>,
                 <<72,101,114,101,32,97,114,101,32,116,104,101,32,108,97,116,101,115,116,32,117,112,100,97,116,101,115,32,102,114,111,109,32,116,104,101,32,119,111,114,108,100,32,111,102,32,115,117,109,111,32,119,114,101,115,116,108,105,110,103,33>>)

\* C28 witness: of a text with two SUBJECT: lines, a numbered SUBJECT: line
\* and a numbered INTRO: line, the second SUBJECT: line became the subject and
\* the intro stayed the default.
LastSubjectWinsIntroDefault ==
  /\ DigestParsed
  /\ Cardinality(LabelLines(probe.reply.text, <<83,85,66,74,69,67,84,58>>)) = 2
  /\ LabelLines(probe.reply.text, <<73,78,84,82,79,58>>) = {}
  /\ Includes(probe.reply.text, <<73,78,84,82,79,58>>)
  /\ Includes(ReplyLines(probe.reply.text)[1], <<83,85,66,74,69,67,84,58>>)
  /\ probe.out.value.subject = <<83,101,99,111,110,100>>
  /\ probe.out.value.intro = DefaultIntro

\* the items as scrapeNews returned them, before run() added their content
AsScraped(items) == [i \in 1..Len(items) |-> [items[i] EXCEPT !.content = Undefined]]

\* the deduplicated, filtered candidates of the listing page, in discovery order
RelevantCandidates(page) == filterRelevantNews(removeDuplicates(Candidates(page)))

\* the try block of scrapeNews reached its return statement
ScanCompleted == listing.ok /\ ~ExtractThrows(listing.page)

DedupAndFilterCommute ==
  Called("filterAndDeduplicate") => probe.out.value[1] = probe.out.value[2]

====
